---- MODULE Spec2Model ----
(***************************************************************************)
(* A model of praat-textgrids 1.0.3 (src/textgrids/__init__.py): the data  *)
(* model (Interval, Point, Tier, TextGrid), the long and short text        *)
(* parsers, format detection and the long-text serializer, with the file   *)
(* layouts of src/textgrids/templates.py.                                  *)
(*                                                                         *)
(* A Python str is modelled as a sequence of one-character strings, a      *)
(* Python float as an exact decimal [m |-> mantissa, e |-> exponent]       *)
(* (value m * 10^e, m not divisible by 10 unless it is 0), so that         *)
(* str.strip, the regular expressions, float() and '{}'.format() are       *)
(* computed on characters and not assumed.                                 *)
(***************************************************************************)
EXTENDS Integers, Sequences, FiniteSets, TLC

(***************************************************************************)
(* Bounds of the model.                                                    *)
(***************************************************************************)
\* tiers per grid in the corpus of encoded files
MaxTiers == 2
\* elements per tier in the corpus of encoded files
MaxElems == 2
\* tiers per grid, and elements per tier, in the corpus of damaged files
MaxDamaged == 1
\* time values k * 0.5, k in 0..MaxTime, offered to the Interval constructor
MaxTime == 5

\* items (letters, escape sequences) in a text given to a transcoder
MaxItems == 3

\* rows of a delimited file given to tier_from_csv
MaxRows == 2

\* the largest num given to Interval.timegrid
MaxNum == 4

(***************************************************************************)
(* Characters and strings.                                                 *)
(***************************************************************************)
DigitSeq == <<"0","1","2","3","4","5","6","7","8","9">>

Digits == {DigitSeq[i] : i \in 1..10}

DigitVal(c) == (CHOOSE i \in 1..10 : DigitSeq[i] = c) - 1

\* str.strip() with no argument strips whitespace
Spaces == {" ", "\t"}

Quote == "\""

RECURSIVE LStrip(_, _)
LStrip(s, cs) ==
    IF s # <<>> /\ Head(s) \in cs THEN LStrip(Tail(s), cs) ELSE s

RECURSIVE RStrip(_, _)
RStrip(s, cs) ==
    IF s # <<>> /\ s[Len(s)] \in cs THEN RStrip(SubSeq(s, 1, Len(s) - 1), cs) ELSE s

\* line.strip()
Strip(s) == RStrip(LStrip(s, Spaces), Spaces)

\* v.strip('"'): every leading and trailing double quote goes
StripQuotes(s) == RStrip(LStrip(s, {Quote}), {Quote})

StartsWith(s, p) == Len(s) >= Len(p) /\ SubSeq(s, 1, Len(p)) = p

\* sub in s
Contains(s, sub) ==
    \E i \in 1..(Len(s) - Len(sub) + 1) : SubSeq(s, i, i + Len(sub) - 1) = sub

AllDigits(s) == \A i \in 1..Len(s) : s[i] \in Digits

\* length of the longest prefix of s made of digits
RECURSIVE DigitPrefixLen(_)
DigitPrefixLen(s) ==
    IF s # <<>> /\ Head(s) \in Digits THEN 1 + DigitPrefixLen(Tail(s)) ELSE 0

Drop(s, n) == SubSeq(s, n + 1, Len(s))

RECURSIVE NatOf(_)
NatOf(ds) ==
    IF ds = <<>> THEN 0
    ELSE NatOf(SubSeq(ds, 1, Len(ds) - 1)) * 10 + DigitVal(ds[Len(ds)])

RECURSIVE NatStr(_)
NatStr(n) == IF n < 10 THEN <<DigitSeq[n + 1]>> ELSE NatStr(n \div 10) \o <<DigitSeq[(n % 10) + 1]>>

\* '{}'.format(i) of an int
IntStr(i) == IF i < 0 THEN <<"-">> \o NatStr(-i) ELSE NatStr(i)

RECURSIVE Pow10(_)
Pow10(k) == IF k <= 0 THEN 1 ELSE 10 * Pow10(k - 1)

RECURSIVE Zeros(_)
Zeros(k) == IF k <= 0 THEN <<>> ELSE <<"0">> \o Zeros(k - 1)

(***************************************************************************)
(* Floats.                                                                 *)
(***************************************************************************)
RECURSIVE Normalize(_, _)
Normalize(m, e) ==
    IF m = 0 THEN [m |-> 0, e |-> 0]
    ELSE IF m % 10 = 0 THEN Normalize(m \div 10, e + 1)
    ELSE [m |-> m, e |-> e]

Zero == [m |-> 0, e |-> 0]

\* k * 0.5
Half(k) == Normalize(5 * k, -1)

\* a > b on floats
FloatGT(a, b) ==
    LET k == IF a.e < b.e THEN a.e ELSE b.e
    IN  a.m * Pow10(a.e - k) > b.m * Pow10(b.e - k)

\* The result of a conversion: ok, and the value when ok.
NoFloat == [ok |-> FALSE, val |-> Zero]

\* float(s): optional whitespace around, optional sign, digits with an
\* optional point (at least one digit), optional exponent.  (The words inf
\* and nan, and underscores between digits, which float() also accepts, are
\* not in the alphabet of the model's files.)
\* (float() is computed in stages, each stage an operator on what the
\* stages before it have read: sign, integer digits, fraction, exponent.)
FloatEnd(neg, ids, fds, ex, eneg, eds, rest) ==
    IF Len(ids) + Len(fds) >= 1 /\ (ex => Len(eds) >= 1) /\ rest = <<>>
    THEN [ok |-> TRUE,
          val |-> Normalize((IF neg THEN -1 ELSE 1) * NatOf(ids \o fds),
                            (IF eneg THEN -1 ELSE 1) * NatOf(eds) - Len(fds))]
    ELSE NoFloat

FloatExpDigits(neg, ids, fds, eneg, r) ==
    FloatEnd(neg, ids, fds, TRUE, eneg, SubSeq(r, 1, DigitPrefixLen(r)),
             Drop(r, DigitPrefixLen(r)))

FloatExp(neg, ids, fds, r) ==
    IF r # <<>> /\ Head(r) \in {"e", "E"}
    THEN IF Len(r) >= 2 /\ r[2] \in {"+", "-"}
         THEN FloatExpDigits(neg, ids, fds, r[2] = "-", Drop(r, 2))
         ELSE FloatExpDigits(neg, ids, fds, FALSE, Tail(r))
    ELSE FloatEnd(neg, ids, fds, FALSE, FALSE, <<>>, r)

FloatFraction(neg, ids, r) ==
    IF r # <<>> /\ Head(r) = "."
    THEN FloatExp(neg, ids, SubSeq(Tail(r), 1, DigitPrefixLen(Tail(r))),
                  Drop(Tail(r), DigitPrefixLen(Tail(r))))
    ELSE FloatExp(neg, ids, <<>>, r)

FloatDigits(neg, r) ==
    FloatFraction(neg, SubSeq(r, 1, DigitPrefixLen(r)), Drop(r, DigitPrefixLen(r)))

FloatSign(s) ==
    IF s # <<>> /\ Head(s) \in {"+", "-"}
    THEN FloatDigits(Head(s) = "-", Tail(s))
    ELSE FloatDigits(FALSE, s)

ParseFloat(str) == FloatSign(Strip(str))

\* int(s): optional whitespace around, optional sign, digits only
ParseInt(str) ==
    LET s   == Strip(str)
        sgn == s # <<>> /\ Head(s) \in {"+", "-"}
        r   == IF sgn THEN Tail(s) ELSE s
    IN  IF r # <<>> /\ AllDigits(r)
        THEN [ok |-> TRUE, val |-> IF Head(s) = "-" THEN -NatOf(r) ELSE NatOf(r)]
        ELSE [ok |-> FALSE, val |-> 0]

\* '{}'.format(f) of a float, which is repr(f): fixed notation when the
\* decimal point falls within -3..16 digits of the first digit, otherwise
\* exponent notation with an exponent of at least two digits.
FormatFloat(f) ==
    LET neg  == f.m < 0
        d    == NatStr(IF neg THEN -f.m ELSE f.m)
        n    == Len(d)
        dp   == n + f.e
        x    == dp - 1
        body == IF f.m = 0 THEN <<"0", ".", "0">>
                ELSE IF dp < -3 \/ dp > 16
                THEN <<d[1]>> \o (IF n > 1 THEN <<".">> \o Drop(d, 1) ELSE <<>>)
                     \o <<"e", IF x < 0 THEN "-" ELSE "+">>
                     \o (IF (IF x < 0 THEN -x ELSE x) < 10 THEN <<"0">> ELSE <<>>)
                     \o NatStr(IF x < 0 THEN -x ELSE x)
                ELSE IF dp <= 0 THEN <<"0", ".">> \o Zeros(-dp) \o d
                ELSE IF dp < n THEN SubSeq(d, 1, dp) \o <<".">> \o Drop(d, dp)
                ELSE d \o Zeros(dp - n) \o <<".", "0">>
    IN  (IF neg THEN <<"-">> ELSE <<>>) \o body

(***************************************************************************)
(* Values.  A value read from a file is a str or a float; a local of a     *)
(* parser may also be None or not yet bound.                               *)
(***************************************************************************)
StrVal(s) == [t |-> "str", s |-> s, f |-> Zero]

FloatVal(f) == [t |-> "float", s |-> <<>>, f |-> f]

NoneVal == [t |-> "None", s |-> <<>>, f |-> Zero]

Unbound == [t |-> "unbound", s |-> <<>>, f |-> Zero]

\* str(v), '{}'.format(v)
ToStr(v) ==
    CASE v.t = "str"   -> v.s
      [] v.t = "float" -> FormatFloat(v.f)
      [] OTHER         -> <<"N","o","n","e">>

(***************************************************************************)
(* File layouts (templates.py).  A file is a sequence of lines.            *)
(***************************************************************************)
FileTypeLine == <<"F","i","l","e"," ","t","y","p","e"," ","="," ","\"","o","o","T","e","x","t","F","i","l","e","\"">>

ObjClassLine == <<"O","b","j","e","c","t"," ","c","l","a","s","s"," ","="," ","\"","T","e","x","t","G","r","i","d","\"">>

ExistsMark == <<"<","e","x","i","s","t","s",">">>

LongExistsLine == <<"t","i","e","r","s","?"," ">> \o ExistsMark

IntervalTierTag == <<"I","n","t","e","r","v","a","l","T","i","e","r">>

PointTierTag == <<"P","o","i","n","t","T","i","e","r">>

Indent(k) == [i \in 1..(4 * k) |-> " "]

Quoted(s) == <<Quote>> \o s \o <<Quote>>

\* 'key = value'
KeyLine(k, key, value) == Indent(k) \o key \o <<" ","="," ">> \o value

\* long_header.format(xmin, xmax, size)
long_header(xmin, xmax, size) ==
    << FileTypeLine,
       ObjClassLine,
       <<>>,
       KeyLine(0, <<"x","m","i","n">>, ToStr(xmin)),
       KeyLine(0, <<"x","m","a","x">>, ToStr(xmax)),
       LongExistsLine,
       KeyLine(0, <<"s","i","z","e">>, IntStr(size)),
       <<"i","t","e","m"," ","[","]",":">> >>

\* long_tier.format(count, class, name, xmin, xmax, elements, size)
long_tier(count, class, name, xmin, xmax, elements, size) ==
    << Indent(1) \o <<"i","t","e","m"," ","[">> \o IntStr(count) \o <<"]",":">>,
       KeyLine(2, <<"c","l","a","s","s">>, Quoted(class)),
       KeyLine(2, <<"n","a","m","e">>, Quoted(ToStr(name))),
       KeyLine(2, <<"x","m","i","n">>, ToStr(xmin)),
       KeyLine(2, <<"x","m","a","x">>, ToStr(xmax)),
       Indent(2) \o elements \o <<":"," ","s","i","z","e"," ","="," ">> \o IntStr(size) >>

\* long_point.format(count, xpos, text)
long_point(count, xpos, text) ==
    << Indent(3) \o <<"p","o","i","n","t","s"," ","[">> \o IntStr(count) \o <<"]",":">>,
       KeyLine(4, <<"x","p","o","s">>, ToStr(xpos)),
       KeyLine(4, <<"t","e","x","t">>, Quoted(ToStr(text))) >>

\* long_interval.format(count, xmin, xmax, text)
long_interval(count, xmin, xmax, text) ==
    << Indent(3) \o <<"i","n","t","e","r","v","a","l","s"," ","[">> \o IntStr(count) \o <<"]",":">>,
       KeyLine(4, <<"x","m","i","n">>, ToStr(xmin)),
       KeyLine(4, <<"x","m","a","x">>, ToStr(xmax)),
       KeyLine(4, <<"t","e","x","t">>, Quoted(ToStr(text))) >>

\* short_header.format(xmin, xmax, length)
short_header(xmin, xmax, length) ==
    << FileTypeLine, ObjClassLine, <<>>,
       ToStr(xmin), ToStr(xmax), ExistsMark, IntStr(length) >>

\* short_tier.format(tier_type, name, xmin, xmax, length)
short_tier(tier_type, name, xmin, xmax, length) ==
    << Quoted(tier_type), Quoted(ToStr(name)), ToStr(xmin), ToStr(xmax), IntStr(length) >>

\* short_point.format(xpos, text)
short_point(xpos, text) == << ToStr(xpos), Quoted(ToStr(text)) >>

\* short_interval.format(xmin, xmax, text)
short_interval(xmin, xmax, text) == << ToStr(xmin), ToStr(xmax), Quoted(ToStr(text)) >>

RECURSIVE Flatten(_)
Flatten(ss) == IF ss = <<>> THEN <<>> ELSE Head(ss) \o Flatten(Tail(ss))

(***************************************************************************)
(* Elements, grid content and its two text encodings.  An Interval is      *)
(* [kind, text, xmin, xmax], a Point [kind, text, xpos], their fields      *)
(* values.  A content is [xmin, xmax, tiers], a tier of it                 *)
(* [name, point, xmin, xmax, elems].                                       *)
(***************************************************************************)
IntervalOf(text, xmin, xmax) == [kind |-> "Interval", text |-> text, xmin |-> xmin, xmax |-> xmax]

\* Point = namedtuple('Point', ['text', 'xpos'])
Point(text, xpos) == [kind |-> "Point", text |-> text, xpos |-> xpos]

LongEncodeTier(count, tr) ==
    long_tier(count, IF tr.point THEN PointTierTag ELSE IntervalTierTag, tr.name,
              tr.xmin, tr.xmax,
              IF tr.point THEN <<"p","o","i","n","t","s">> ELSE <<"i","n","t","e","r","v","a","l","s">>,
              Len(tr.elems))
    \o Flatten([j \in 1..Len(tr.elems) |->
                  IF tr.point
                  THEN long_point(j, tr.elems[j].xpos, tr.elems[j].text)
                  ELSE long_interval(j, tr.elems[j].xmin, tr.elems[j].xmax, tr.elems[j].text)])

LongEncode(c) ==
    long_header(c.xmin, c.xmax, Len(c.tiers))
    \o Flatten([i \in 1..Len(c.tiers) |-> LongEncodeTier(i, c.tiers[i])])

ShortEncodeTier(tr) ==
    short_tier(IF tr.point THEN PointTierTag ELSE IntervalTierTag, tr.name,
               tr.xmin, tr.xmax, Len(tr.elems))
    \o Flatten([j \in 1..Len(tr.elems) |->
                  IF tr.point
                  THEN short_point(tr.elems[j].xpos, tr.elems[j].text)
                  ELSE short_interval(tr.elems[j].xmin, tr.elems[j].xmax, tr.elems[j].text)])

ShortEncode(c) ==
    short_header(c.xmin, c.xmax, Len(c.tiers))
    \o Flatten([i \in 1..Len(c.tiers) |-> ShortEncodeTier(c.tiers[i])])

(***************************************************************************)
(* The corpus of input files.                                              *)
(***************************************************************************)
\* time stamps 0.0, 0.5, 1.2, 2.4, ...
TimeAt(k) ==
    FloatVal(IF k = 0 THEN Zero ELSE IF k = 1 THEN Half(1) ELSE Normalize(12 * (k - 1), -1))

LetterSeq == <<"a","b","c","d">>

ElemText(j) == StrVal(<<LetterSeq[((j - 1) % 4) + 1]>>)

TierName(i) ==
    StrVal(IF i = 1 THEN <<"p","h","o","n","e","s">>
           ELSE IF i = 2 THEN <<"t","o","n","e","s">>
           ELSE <<"t">> \o IntStr(i))

\* what a grid of the corpus is made of: per tier, its variant and its length
TierShapes(n) == [point : BOOLEAN, n : 0..n]

\* the grids of at most k tiers of at most n elements each
GridShapes(k, n) == UNION {[1..len -> TierShapes(n)] : len \in 0..k}

ContentTier(i, sh) ==
    [name  |-> TierName(i),
     point |-> sh.point,
     xmin  |-> TimeAt(0),
     xmax  |-> TimeAt(MaxElems),
     elems |-> [j \in 1..sh.n |->
                  IF sh.point THEN Point(ElemText(j), TimeAt(j))
                  ELSE IntervalOf(ElemText(j), TimeAt(j - 1), TimeAt(j))]]

Content(gs) ==
    [xmin  |-> TimeAt(0),
     xmax  |-> TimeAt(MaxElems),
     tiers |-> [i \in 1..Len(gs) |-> ContentTier(i, gs[i])]]

Contents == {Content(gs) : gs \in GridShapes(MaxTiers, MaxElems)}

\* the contents whose files get damaged
SmallContents == {Content(gs) : gs \in GridShapes(MaxDamaged, MaxDamaged)}

\* An input is the lines of a file and where they come from: the content
\* and the layout (fmt) that made the file, what was done to it afterwards
\* (damage) and at which line.
Input(fmt, damage, at, c, lines) ==
    [fmt |-> fmt, damage |-> damage, at |-> at, content |-> c, lines |-> lines]

Encode(fmt, c) == IF fmt = "long" THEN LongEncode(c) ELSE ShortEncode(c)

Layouts == {"long", "short"}

WholeFiles == {Input(fmt, "none", 0, c, Encode(fmt, c)) : fmt \in Layouts, c \in Contents}

DropLine(f, i) == SubSeq(f, 1, i - 1) \o SubSeq(f, i + 1, Len(f))

ReplaceLine(f, i, line) == [f EXCEPT ![i] = line]

\* one line missing
DroppedOf(fmt, c) ==
    {Input(fmt, "dropped", i, c, DropLine(Encode(fmt, c), i)) : i \in 1..Len(Encode(fmt, c))}

DroppedFiles == UNION {DroppedOf(fmt, c) : fmt \in Layouts, c \in SmallContents}

\* truncated, the empty file included
TruncatedOf(fmt, c) ==
    {Input(fmt, "truncated", i, c, SubSeq(Encode(fmt, c), 1, i)) :
        i \in 0..(Len(Encode(fmt, c)) - 1)}

TruncatedFiles == UNION {TruncatedOf(fmt, c) : fmt \in Layouts, c \in SmallContents}

\* lines that are no line of the layouts
OddLines ==
    { <<"j","u","n","k">>,
      <<"5","e","-","1">>,
      <<"-">>,
      <<"0",",","5">>,
      <<"0">>,
      <<"t","e","x","t"," ","="," ","\"","a","\"">>,
      <<"x","m","i","n"," ","="," ","\"","a","\"">> }

\* one line replaced by an odd one
ReplacedOf(fmt, c) ==
    {Input(fmt, "replaced", i, c, ReplaceLine(Encode(fmt, c), i, l)) :
        i \in 1..Len(Encode(fmt, c)), l \in OddLines}

ReplacedFiles == UNION {ReplacedOf(fmt, c) : fmt \in Layouts, c \in SmallContents}

\* the existence flag (line 6) says that there are no tiers
AbsentLine(fmt) ==
    IF fmt = "long" THEN <<"t","i","e","r","s","?"," ","<","a","b","s","e","n","t",">">>
    ELSE <<"<","a","b","s","e","n","t",">">>

AbsentFiles ==
    {Input(fmt, "absent", 6, c, ReplaceLine(Encode(fmt, c), 6, AbsentLine(fmt))) :
        fmt \in Layouts, c \in Contents}

\* one or two lines, the last of them odd
StubFiles ==
    {Input("none", "stub", 1, Content(<<>>), <<l>>) : l \in OddLines}
    \cup {Input("none", "stub", 2, Content(<<>>), <<FileTypeLine, l>>) : l \in OddLines}

Files == WholeFiles \cup DroppedFiles \cup TruncatedFiles
         \cup ReplacedFiles \cup AbsentFiles \cup StubFiles

\* where the lines of an input come from
Origin(f) == [fmt |-> f.fmt, damage |-> f.damage, at |-> f.at, content |-> f.content]

\* read(): every line stripped
RECURSIVE ReadLines(_)
ReadLines(f) == IF f = <<>> THEN <<>> ELSE <<Strip(Head(f))>> \o ReadLines(Tail(f))

(***************************************************************************)
(* Files as bytes.  A byte is written as the ASCII character it encodes,   *)
(* or as "xHH" where it encodes none that a TLA+ string can hold.          *)
(***************************************************************************)
\* the values of the bytes above 127 that the corpus holds; the value of a
\* byte below 128 is never needed
HighVal ==
    [b \in {"xA4", "xC3", "xCC", "xD3", "xE0", "xF0", "xFE", "xFF"} |->
        CASE b = "xA4" -> 164 [] b = "xC3" -> 195 [] b = "xCC" -> 204
          [] b = "xD3" -> 211 [] b = "xE0" -> 224 [] b = "xF0" -> 240
          [] b = "xFE" -> 254 [] b = "xFF" -> 255]

ByteVal(b) == IF b \in DOMAIN HighVal THEN HighVal[b] ELSE 0

\* the byte of a small number
SmallByte(n) ==
    <<"x00", "x01", "x02", "x03", "x04", "x05", "x06", "x07", "x08", "\t", "\n",
      "x0B", "x0C">>[n + 1]

Int16(n) == <<"x00", SmallByte(n)>>

Int32(n) == <<"x00", "x00", "x00", SmallByte(n)>>

\* big-endian IEEE doubles of 0.0, 0.3, 1.0 and 2.0, by their tenths
BinDouble(t) ==
    CASE t = 0  -> <<"x00", "x00", "x00", "x00", "x00", "x00", "x00", "x00">>
      [] t = 3  -> <<"?", "xD3", "3", "3", "3", "3", "3", "3">>
      [] t = 10 -> <<"?", "xF0", "x00", "x00", "x00", "x00", "x00", "x00">>
      [] t = 20 -> <<"@", "x00", "x00", "x00", "x00", "x00", "x00", "x00">>

BinarySignature ==
    <<"o","o","B","i","n","a","r","y","F","i","l","e","x08","T","e","x","t","G","r","i","d">>

BinaryTags ==
    { <<"P","o","i","n","t","T","i","e","r">>,
      <<"T","e","x","t","T","i","e","r">>,
      <<"I","n","t","e","r","v","a","l","T","i","e","r">> }

\* what a binary file of the corpus declares: the end of the time axis, at
\* most one tier "tones" of n elements "H", all at the same time
BinaryShapes ==
    [xmax : {10, 20}, tiers : 0..1, tag : BinaryTags, n : 0..MaxDamaged, at : {3, 20}]

BinaryElement(s) ==
    (IF Len(s.tag) = 12 THEN BinDouble(0) ELSE <<>>)
    \o BinDouble(s.at) \o Int16(1) \o <<"H">>

BinaryTier(s) ==
    <<SmallByte(Len(s.tag))>> \o s.tag \o Int16(5) \o <<"t","o","n","e","s">>
    \o BinDouble(0) \o BinDouble(s.xmax) \o Int32(s.n)
    \o Flatten([j \in 1..s.n |-> BinaryElement(s)])

BinaryBytes(s) ==
    BinarySignature \o BinDouble(0) \o BinDouble(s.xmax) \o <<"x01">> \o Int32(s.tiers)
    \o (IF s.tiers = 1 THEN BinaryTier(s) ELSE <<>>)

Buffer(fmt, c, bytes) ==
    [fmt |-> fmt, damage |-> "none", at |-> 0, content |-> c, bytes |-> bytes]

BinaryBuffers == {Buffer("binary", s, BinaryBytes(s)) : s \in BinaryShapes}

\* the bytes of the lines of a text, in UTF-8 and in UTF-16
RECURSIVE Utf8Bytes(_)
Utf8Bytes(lines) ==
    IF lines = <<>> THEN <<>> ELSE Head(lines) \o <<"\n">> \o Utf8Bytes(Tail(lines))

Utf16Bytes(bs, big) ==
    [i \in 1..(2 * Len(bs)) |-> IF (i % 2 = 1) = big THEN "x00" ELSE bs[(i + 1) \div 2]]

BOM(big) == IF big THEN <<"xFE", "xFF">> ELSE <<"xFF", "xFE">>

TextBuffers ==
    {Buffer("utf8", c, Utf8Bytes(Encode(fmt, c))) : fmt \in Layouts, c \in SmallContents}
    \cup {Buffer("utf16", c, BOM(big) \o Utf16Bytes(Utf8Bytes(Encode(fmt, c)), big)) :
            fmt \in Layouts, c \in SmallContents, big \in BOOLEAN}

\* files that are no text at all, and texts cut in the middle of a character
OddBuffers ==
    {Buffer("odd", Content(<<>>), bs) :
        bs \in { <<>>, <<"a">>, <<"xFF", "xFE">>, <<"xFF", "xFE", "a">>,
                 <<"xC3", "xA4", "\r", "\n", "a", "\r", "b">>,
                 <<"a", "xC3">>, <<"xA4">>, <<"xE0", "xA4">> }}

Buffers == BinaryBuffers \cup TextBuffers \cup OddBuffers

\* codecs.open(filename, 'r', 'UTF-16'): the characters of the 16-bit units
\* after the byte-order mark; a last odd byte is never decoded
Utf16Unit(hi, lo) == IF hi = "x00" THEN lo ELSE hi \o lo

Utf16Units(bs, big) ==
    [i \in 1..(Len(bs) \div 2) |->
        IF big THEN Utf16Unit(bs[2 * i - 1], bs[2 * i]) ELSE Utf16Unit(bs[2 * i], bs[2 * i - 1])]

\* the UTF-16 reader wants a byte-order mark as soon as it has two bytes
DecodeUTF16(bs) ==
    IF Len(bs) < 2 THEN [ok |-> TRUE, text |-> <<>>]
    ELSE IF SubSeq(bs, 1, 2) \in {BOM(TRUE), BOM(FALSE)}
         THEN [ok |-> TRUE, text |-> Utf16Units(Drop(bs, 2), SubSeq(bs, 1, 2) = BOM(TRUE))]
    ELSE [ok |-> FALSE, text |-> <<>>]

\* how many bytes the UTF-8 character that begins with byte b takes (0: none)
Utf8Len(b) ==
    IF ByteVal(b) < 128 THEN 1
    ELSE IF ByteVal(b) \in 194..223 THEN 2
    ELSE IF ByteVal(b) \in 224..239 THEN 3
    ELSE IF ByteVal(b) \in 240..244 THEN 4
    ELSE 0

Utf8Char(bs, n) ==
    IF n = 1 THEN bs[1]
    ELSE IF n = 2 THEN bs[1] \o bs[2]
    ELSE IF n = 3 THEN bs[1] \o bs[2] \o bs[3]
    ELSE bs[1] \o bs[2] \o bs[3] \o bs[4]

\* the first place of t that holds one of S, or 0
FirstOf(t, S) ==
    IF \A i \in 1..Len(t) : t[i] \notin S THEN 0
    ELSE CHOOSE i \in 1..Len(t) : t[i] \in S /\ \A j \in 1..(i - 1) : t[j] \notin S

\* the first place of bs that holds no ASCII byte, or 0
FirstHigh(bs) ==
    IF \A i \in 1..Len(bs) : Utf8Len(bs[i]) = 1 THEN 0
    ELSE CHOOSE i \in 1..Len(bs) : Utf8Len(bs[i]) # 1 /\ \A j \in 1..(i - 1) : Utf8Len(bs[j]) = 1

\* open(filename, 'r'): the characters of a UTF-8 file, or UnicodeDecodeError;
\* h is the place of the first byte that is not ASCII
RECURSIVE DecodeFrom(_, _, _)
DecodeFrom(bs, acc, h) ==
    IF h = 0 THEN [ok |-> TRUE, text |-> acc \o bs]
    ELSE IF \/ Utf8Len(bs[h]) = 0
            \/ Len(bs) < h + Utf8Len(bs[h]) - 1
            \/ \E i \in 1..(Utf8Len(bs[h]) - 1) : ByteVal(bs[h + i]) \notin 128..191
         THEN [ok |-> FALSE, text |-> <<>>]
    ELSE DecodeFrom(Drop(bs, h + Utf8Len(bs[h]) - 1),
                    acc \o SubSeq(bs, 1, h - 1) \o <<Utf8Char(Drop(bs, h - 1), Utf8Len(bs[h]))>>,
                    FirstHigh(Drop(bs, h + Utf8Len(bs[h]) - 1)))

DecodeUTF8(bs) == DecodeFrom(bs, <<>>, FirstHigh(bs))

\* where the UTF-16 reader ends a line, and where the text file does
Breaks16 == {"\n", "\r", "x0B", "x0C", "x1C", "x1D", "x1E", "x85"}

Breaks8 == {"\n", "\r"}

\* for line in infile; e is the place of the first line end of t
RECURSIVE SplitFrom(_, _, _, _)
SplitFrom(t, ends, acc, e) ==
    IF t = <<>> THEN acc
    ELSE IF e = 0 THEN Append(acc, t)
    ELSE IF e < Len(t) /\ t[e] = "\r" /\ t[e + 1] = "\n"
         THEN SplitFrom(Drop(t, e + 1), ends, Append(acc, SubSeq(t, 1, e - 1)),
                        FirstOf(Drop(t, e + 1), ends))
    ELSE SplitFrom(Drop(t, e), ends, Append(acc, SubSeq(t, 1, e - 1)),
                   FirstOf(Drop(t, e), ends))

SplitLines(t, ends) == SplitFrom(t, ends, <<>>, FirstOf(t, ends))

\* read(filename) up to the call of parse: the lines, or UnicodeDecodeError
FileLines(bs) ==
    IF DecodeUTF16(bs).ok
    THEN [ok |-> TRUE, lines |-> ReadLines(SplitLines(DecodeUTF16(bs).text, Breaks16))]
    ELSE IF DecodeUTF8(bs).ok
    THEN [ok |-> TRUE, lines |-> ReadLines(SplitLines(DecodeUTF8(bs).text, Breaks8))]
    ELSE [ok |-> FALSE, lines |-> <<>>]

(***************************************************************************)
(* Data model.                                                             *)
(***************************************************************************)
\* a > b as Interval.__init__ compares its bounds (floats)
\* ord(c) of a character of a time field: a digit or the point
CodePoint(c) == IF c = "." THEN 46 ELSE 48 + DigitVal(c)

\* a > b on str: by the code points of the first characters that differ, a
\* proper prefix being the smaller
RECURSIVE StrGT(_, _)
StrGT(a, b) ==
    IF a = <<>> THEN FALSE
    ELSE IF b = <<>> THEN TRUE
    ELSE IF Head(a) = Head(b) THEN StrGT(Tail(a), Tail(b))
    ELSE CodePoint(Head(a)) > CodePoint(Head(b))

ValGT(a, b) == IF a.t = "str" /\ b.t = "str" THEN StrGT(a.s, b.s) ELSE FloatGT(a.f, b.f)

\* What a call gives: the exception it raises ("" when none) and its value.
Raised(exc) == [exc |-> exc, obj |-> <<>>]

Returned(obj) == [exc |-> "", obj |-> <<obj>>]

\* Interval.__init__ that never looks at its bounds
IntervalInitUnchecked(text, xmin, xmax) ==
    Returned(IntervalOf(StrVal(ToStr(text)), xmin, xmax))

\* Interval(text, xmin, xmax).  With xmin > xmax, __init__ executes
\* 'return ValueError': an __init__ that returns anything but None makes
\* the constructor call raise TypeError.
IntervalInit(text, xmin, xmax) ==
    IF ValGT(xmin, xmax)
    THEN Raised("TypeError")
    ELSE Returned(IntervalOf(StrVal(ToStr(text)), xmin, xmax))

\* Tier(point_tier=p), and the other things the parsers' local 'tier' holds
Tier(point_tier) == [st |-> "Tier", point |-> point_tier, elems |-> <<>>]

EmptyList == [st |-> "list", point |-> FALSE, elems |-> <<>>]

NoneTier == [st |-> "None", point |-> FALSE, elems |-> <<>>]

\* bool(tier): a list is true when it has elements, None is false
Truthy(tr) == tr.st # "None" /\ tr.elems # <<>>

\* tier.append(elem)
TierAppend(tr, elem) == [tr EXCEPT !.elems = Append(@, elem)]

\* self[name] = tier on the ordered dict: a key already present keeps its place
SetItem(g, name, tr) ==
    IF \E i \in 1..Len(g) : g[i].name = name
    THEN [i \in 1..Len(g) |-> IF g[i].name = name THEN [name |-> name, tier |-> tr] ELSE g[i]]
    ELSE Append(g, [name |-> name, tier |-> tr])

(***************************************************************************)
(* The regular expressions of parse and _parse_long, on stripped lines.    *)
(***************************************************************************)
\* re.match('^-?\d+.?\d*$', s): an optional minus, digits, at most one
\* character of any kind, digits to the end
IsShortNumber(s) ==
    LET r    == IF s # <<>> /\ Head(s) = "-" THEN Tail(s) ELSE s
        k    == DigitPrefixLen(r)
        rest == Drop(r, k)
    IN  k >= 1 /\ (rest = <<>> \/ AllDigits(Tail(rest)))

\* the line begins with a digit or a minus sign
BeginsLikeNumber(s) == s # <<>> /\ Head(s) \in Digits \cup {"-"}

\* ^word \[\d+\]:$
IndexLine(s, word) ==
    LET pre == word \o <<" ", "[">>
        mid == SubSeq(s, Len(pre) + 1, Len(s) - 2)
    IN  /\ StartsWith(s, pre)
        /\ Len(s) >= Len(pre) + 3
        /\ SubSeq(s, Len(s) - 1, Len(s)) = <<"]", ":">>
        /\ AllDigits(mid)

new_tier(s) == IndexLine(s, <<"i","t","e","m">>)

new_interval(s) == IndexLine(s, <<"i","n","t","e","r","v","a","l","s">>)

new_point(s) == IndexLine(s, <<"p","o","i","n","t","s">>)

ValueKeys ==
    { <<"n","a","m","e">>, <<"x","m","i","n">>, <<"x","m","a","x">>,
      <<"x","p","o","s">>, <<"t","e","x","t">> }

\* (name|xmin|xmax|xpos|text) = "?.*"?$ matched at the start of the line
new_value(s) == \E key \in ValueKeys : StartsWith(s, key \o <<" ", "=", " ">>)

\* the positions of an '=' between white space with two characters after it
EqualsAt(s) ==
    {e \in 3..(Len(s) - 2) : s[e] = "=" /\ s[e - 1] \in Spaces /\ s[e + 1] \in Spaces}

SetMax(S) == CHOOSE m \in S : \A o \in S : o <= m

\* keyval(s): '^\s*(.+)\s+=\s+(.+)$' with its greedy first group, so the
\* key runs up to the LAST ' = ' of the line; a value that starts with a
\* quote is a str with its quotes stripped, any other is float(v).
\* [matched, key, isfloat (float() succeeded), val]
keyval(s) ==
    IF EqualsAt(s) = {}
    THEN [matched |-> FALSE, key |-> <<>>, good |-> FALSE, val |-> NoneVal]
    ELSE LET e    == SetMax(EqualsAt(s))
             k    == SubSeq(s, 1, e - 2)
             rest == LStrip(Drop(s, e), Spaces)
             v    == IF rest = <<>> THEN <<s[Len(s)]>> ELSE rest
         IN  IF Head(v) = Quote
             THEN [matched |-> TRUE, key |-> k, good |-> TRUE, val |-> StrVal(StripQuotes(v))]
             ELSE IF ParseFloat(v).ok
             THEN [matched |-> TRUE, key |-> k, good |-> TRUE, val |-> FloatVal(ParseFloat(v).val)]
             ELSE [matched |-> TRUE, key |-> k, good |-> FALSE, val |-> NoneVal]

\* line.split()[-1]: the last run of characters that are not white space
RECURSIVE LastToken(_)
LastToken(s) ==
    IF s = <<>> \/ s[Len(s)] \in Spaces THEN <<>>
    ELSE LastToken(SubSeq(s, 1, Len(s) - 1)) \o <<s[Len(s)]>>

(***************************************************************************)
(* State.                                                                  *)
(***************************************************************************)
VARIABLES
    pc,          \* idle, long (in _parse_long's loop), short, done
    data,        \* the lines parse was given (whole file, stripped by read)
    lineno,      \* 1-based number, in the file, of the loop's next line
    parser,      \* the parser parse chose: none, long, short
    grid,        \* the TextGrid: the ordered dict, a sequence of [name, tier]
    grid_xmin,   \* self.xmin (unbound until a parser sets it)
    grid_xmax,   \* self.xmax
    tier,        \* locals of the parser
    name,
    x0,
    x1,
    tlen,
    mode,
    outcome,     \* how the call ended: [kind, args]; kind running, ok or the exception
    examined,    \* the highest line number the call has read
    saved,       \* the grid that was serialized, while its text is parsed back
    written,     \* what __repr__ gave: [exc, obj]
    source,      \* where the lines of data come from (see Input)
    twin,        \* what parsing the long text of a content gave, while the
                 \* short text of the same content is parsed
    made,        \* the last Interval(...) call: [args, result]
    subject,     \* the Tier that the methods of the Tier class are called on
    call         \* the last of these calls: [op, self, args, result], self
                 \* being the tier before the call

vars == <<pc, data, lineno, parser, grid, grid_xmin, grid_xmax, tier, name, x0, x1,
          tlen, mode, outcome, examined, source, saved, written, twin, made,
          subject, call>>

parseVars == <<pc, data, lineno, parser, grid, grid_xmin, grid_xmax, tier, name, x0, x1,
               tlen, mode, outcome, examined>>

Outcome(kind, args) == [kind |-> kind, args |-> args]

NoCall == [args |-> <<>>, result |-> Raised("")]

NoMethod == [op |-> "none", self |-> NoneTier, args |-> <<>>, result |-> Raised("")]

NoSource == [fmt |-> "none", damage |-> "none", at |-> 0, content |-> Content(<<>>)]

Init ==
    /\ pc = "idle"
    /\ data = <<>>
    /\ lineno = 0
    /\ parser = "none"
    /\ grid = <<>>
    /\ grid_xmin = Unbound
    /\ grid_xmax = Unbound
    /\ tier = NoneTier
    /\ name = Unbound
    /\ x0 = Unbound
    /\ x1 = Unbound
    /\ tlen = 0
    /\ mode = "none"
    /\ outcome = Outcome("none", <<>>)
    /\ examined = 0
    /\ saved = <<>>
    /\ written = Raised("")
    /\ twin = <<>>
    /\ source = NoSource
    /\ made = NoCall
    /\ subject = NoneTier
    /\ call = NoMethod

(***************************************************************************)
(* TextGrid.parse up to the loop of the parser it chooses.                 *)
(***************************************************************************)
Head3 == <<FileTypeLine, ObjClassLine, <<>> >>

\* where a call stands when it leaves the code before the loop
Left(kind, args, which, xmin, xmax, seen) ==
    [outcome |-> Outcome(kind, args), parser |-> which, xmin |-> xmin, xmax |-> xmax,
     examined |-> seen]

\* _parse_long before its loop, without the return on a false flag
LongHeadNoStop(d) ==
    LET n  == Len(d) - 3
        t1 == LastToken(d[4])
        t2 == LastToken(d[5])
        f1 == FloatVal(ParseFloat(t1).val)
        f2 == FloatVal(ParseFloat(t2).val)
    IN  IF t1 = <<>> THEN Left("IndexError", <<>>, "long", Unbound, Unbound, 4)
        ELSE IF ~ParseFloat(t1).ok THEN Left("ValueError", <<>>, "long", Unbound, Unbound, 4)
        ELSE IF n < 2 THEN Left("ValueError", <<>>, "long", Unbound, Unbound, 4)
        ELSE IF t2 = <<>> THEN Left("IndexError", <<>>, "long", Unbound, Unbound, 5)
        ELSE IF ~ParseFloat(t2).ok THEN Left("ValueError", <<>>, "long", Unbound, Unbound, 5)
        ELSE IF n < 3 THEN Left("IndexError", <<>>, "long", f1, f2, 5)
        ELSE Left("running", <<>>, "long", f1, f2, 6)

\* _parse_long before its loop; d is the whole file, data[k] is d[k + 4]
LongHead(d) ==
    LET n  == Len(d) - 3
        t1 == LastToken(d[4])
        t2 == LastToken(d[5])
        f1 == FloatVal(ParseFloat(t1).val)
        f2 == FloatVal(ParseFloat(t2).val)
    IN  IF t1 = <<>> THEN Left("IndexError", <<>>, "long", Unbound, Unbound, 4)
        ELSE IF ~ParseFloat(t1).ok THEN Left("ValueError", <<>>, "long", Unbound, Unbound, 4)
        ELSE IF n < 2 THEN Left("ValueError", <<>>, "long", Unbound, Unbound, 4)
        ELSE IF t2 = <<>> THEN Left("IndexError", <<>>, "long", Unbound, Unbound, 5)
        ELSE IF ~ParseFloat(t2).ok THEN Left("ValueError", <<>>, "long", Unbound, Unbound, 5)
        ELSE IF n < 3 THEN Left("IndexError", <<>>, "long", f1, f2, 5)
        ELSE IF ~Contains(d[6], ExistsMark) THEN Left("ok", <<>>, "long", f1, f2, 6)
        ELSE Left("running", <<>>, "long", f1, f2, 6)

\* _parse_short before its loop
ShortHead(d) ==
    LET n  == Len(d) - 3
        f1 == FloatVal(ParseFloat(d[4]).val)
        f2 == FloatVal(ParseFloat(d[5]).val)
    IN  IF ~ParseFloat(d[4]).ok THEN Left("ValueError", <<>>, "short", Unbound, Unbound, 4)
        ELSE IF n < 2 THEN Left("ValueError", <<>>, "short", Unbound, Unbound, 4)
        ELSE IF ~ParseFloat(d[5]).ok THEN Left("ValueError", <<>>, "short", Unbound, Unbound, 5)
        ELSE IF n < 3 THEN Left("IndexError", <<>>, "short", f1, f2, 5)
        ELSE IF d[6] # ExistsMark THEN Left("ok", <<>>, "short", f1, f2, 6)
        ELSE Left("running", <<>>, "short", f1, f2, 6)

\* TextGrid.parse(data): the header, then the choice of the parser
ParseHead(d) ==
    IF Len(d) < 3 THEN Left("ValueError", <<>>, "none", Unbound, Unbound, Len(d))
    ELSE IF SubSeq(d, 1, 3) # Head3 THEN Left("ParseError", <<>>, "none", Unbound, Unbound, 3)
    ELSE IF Len(d) = 3 THEN Left("IndexError", <<>>, "none", Unbound, Unbound, 3)
    ELSE IF IsShortNumber(d[4]) THEN ShortHead(d)
    ELSE LongHead(d)


\* parse(d) up to the parser's loop, on a TextGrid that holds the tiers g and
\* the bounds xmin, xmax: parse assigns to self.xmin and self.xmax and never
\* clears self
EnterOn(g, xmin, xmax, d, h) ==
    /\ data' = d
    /\ grid' = g
    /\ grid_xmin' = IF h.xmin = Unbound THEN xmin ELSE h.xmin
    /\ grid_xmax' = IF h.xmax = Unbound THEN xmax ELSE h.xmax
    /\ parser' = h.parser
    /\ outcome' = h.outcome
    /\ examined' = h.examined
    /\ pc' = IF h.outcome.kind = "running" THEN h.parser ELSE "done"
    /\ lineno' = IF h.parser = "long" THEN 9 ELSE 8
    /\ tier' = EmptyList
    /\ name' = Unbound
    /\ x0' = Unbound
    /\ x1' = Unbound
    /\ tlen' = 0
    /\ mode' = IF h.parser = "short" THEN "type" ELSE "none"

\* parse(d) on a new TextGrid, up to the parser's loop
Enter(d, h) == EnterOn(<<>>, Unbound, Unbound, d, h)

StartParse(d) == Enter(d, ParseHead(d))

\* read(filename): the lines of the file, stripped, go to parse
Read(f) ==
    /\ StartParse(ReadLines(f.lines))
    /\ source' = Origin(f)
    /\ UNCHANGED <<saved, written, twin, made, subject, call>>

\* TextGrid(filename) on one of the files
NewTextGrid ==
    /\ pc = "idle"
    /\ \E f \in Files : Read(f)

\* read(filename) on the bytes of a file
ReadBytes(b) ==
    /\ IF FileLines(b.bytes).ok THEN StartParse(FileLines(b.bytes).lines)
       ELSE /\ pc' = "done"
            /\ outcome' = Outcome("UnicodeDecodeError", <<>>)
            /\ UNCHANGED <<data, lineno, parser, grid, grid_xmin, grid_xmax, tier, name,
                           x0, x1, tlen, mode, examined>>
    /\ source' = Origin(b)
    /\ UNCHANGED <<saved, written, twin, made, subject, call>>

\* TextGrid(filename) on one of the byte buffers
NewTextGridFromBytes ==
    /\ pc = "idle"
    /\ \E b \in Buffers : ReadBytes(b)

(***************************************************************************)
(* One line of a parser's loop.                                            *)
(***************************************************************************)
\* the exception kind leaves the loop, and the call
Fail(kind, args) ==
    /\ pc' = "done"
    /\ outcome' = Outcome(kind, args)
    /\ examined' = lineno
    /\ UNCHANGED <<data, lineno, parser, grid, grid_xmin, grid_xmax, tier, name, x0, x1,
                   tlen, mode, source, saved, written, twin, made, subject, call>>

\* the loop goes on to the next line with these locals and this grid
Go(tier2, name2, x02, x12, tlen2, mode2, grid2) ==
    /\ lineno' = lineno + 1
    /\ examined' = lineno
    /\ tier' = tier2
    /\ name' = name2
    /\ x0' = x02
    /\ x1' = x12
    /\ tlen' = tlen2
    /\ mode' = mode2
    /\ grid' = grid2
    /\ UNCHANGED <<pc, data, parser, grid_xmin, grid_xmax, outcome, source, saved, written, twin, made, subject, call>>

\* the loop is over and the call returns
Return(grid2) ==
    /\ pc' = "done"
    /\ outcome' = Outcome("ok", <<>>)
    /\ grid' = grid2
    /\ UNCHANGED <<data, lineno, parser, grid_xmin, grid_xmax, tier, name, x0, x1,
                   tlen, mode, examined, source, saved, written, twin, made, subject, call>>

InLoop(which) == pc = which /\ lineno <= Len(data)

\* the branch of _parse_long's if/elif chain that a line takes
LongBranch(line) ==
    IF new_tier(line) THEN "tier"
    ELSE IF new_interval(line) /\ ~Truthy(tier) THEN "interval"
    ELSE IF new_point(line) /\ ~Truthy(tier) THEN "point"
    ELSE IF new_value(line) THEN "value"
    ELSE "skip"

\* 'item [n]:' stores the tier read so far, if it has elements
LongNewTier ==
    /\ InLoop("long")
    /\ LongBranch(data[lineno]) = "tier"
    /\ IF ~Truthy(tier) THEN Go(tier, name, x0, x1, tlen, mode, grid)
       ELSE IF name = Unbound THEN Fail("UnboundLocalError", <<>>)
       ELSE Go(NoneTier, NoneVal, x0, x1, tlen, mode, SetItem(grid, name, tier))

\* 'intervals [n]:' while the tier has no element yet
LongNewInterval ==
    /\ InLoop("long")
    /\ LongBranch(data[lineno]) = "interval"
    /\ Go(Tier(FALSE), name, x0, x1, tlen, mode, grid)

\* 'points [n]:' while the tier has no element yet
LongNewPoint ==
    /\ InLoop("long")
    /\ LongBranch(data[lineno]) = "point"
    /\ Go(Tier(TRUE), name, x0, x1, tlen, mode, grid)

Key(s) == CASE s = "name" -> <<"n","a","m","e">>
            [] s = "xmin" -> <<"x","m","i","n">>
            [] s = "xmax" -> <<"x","m","a","x">>
            [] s = "xpos" -> <<"x","p","o","s">>
            [] s = "text" -> <<"t","e","x","t">>

\* 'key = value'
LongValue ==
    /\ InLoop("long")
    /\ LongBranch(data[lineno]) = "value"
    /\ LET kv == keyval(data[lineno])
           iv == IntervalInit(kv.val, x0, x1)
       IN  IF ~kv.matched THEN Fail("AttributeError", <<>>)
           ELSE IF ~kv.good THEN Fail("ParseError", <<lineno>>)
           ELSE IF kv.key = Key("name") THEN Go(tier, kv.val, x0, x1, tlen, mode, grid)
           ELSE IF kv.key = Key("xmin")
           THEN IF kv.val.t # "float" THEN Fail("ParseError", <<lineno>>)
                ELSE Go(tier, name, kv.val, x1, tlen, mode, grid)
           ELSE IF kv.key \in {Key("xmax"), Key("xpos")}
           THEN IF kv.val.t # "float" THEN Fail("ParseError", <<lineno>>)
                ELSE Go(tier, name, x0, kv.val, tlen, mode, grid)
           ELSE IF kv.key = Key("text")
           THEN IF tier.st # "Tier" THEN Fail("AttributeError", <<>>)
                ELSE IF tier.point
                THEN IF x1 = Unbound THEN Fail("UnboundLocalError", <<>>)
                     ELSE Go(TierAppend(tier, Point(kv.val, x1)), name, x0, x1, tlen, mode, grid)
                ELSE IF x0 = Unbound \/ x1 = Unbound THEN Fail("UnboundLocalError", <<>>)
                ELSE IF iv.exc # "" THEN Fail(iv.exc, <<>>)
                ELSE Go(TierAppend(tier, iv.obj[1]), name, x0, x1, tlen, mode, grid)
           ELSE Go(tier, name, x0, x1, tlen, mode, grid)

\* any other line is passed over
LongSkip ==
    /\ InLoop("long")
    /\ LongBranch(data[lineno]) = "skip"
    /\ Go(tier, name, x0, x1, tlen, mode, grid)

\* after the loop: 'if tier: self[name] = tier'
LongEnd ==
    /\ pc = "long"
    /\ lineno > Len(data)
    /\ IF ~Truthy(tier) THEN Return(grid)
       ELSE IF name = Unbound
       THEN /\ pc' = "done"
            /\ outcome' = Outcome("UnboundLocalError", <<>>)
            /\ UNCHANGED <<data, lineno, parser, grid, grid_xmin, grid_xmax, tier, name,
                           x0, x1, tlen, mode, examined, source, saved, written, twin, made, subject, call>>
       ELSE Return(SetItem(grid, name, tier))

ShortMode(m) == InLoop("short") /\ mode = m

ShortType ==
    /\ ShortMode("type")
    /\ Go(Tier(data[lineno] # Quoted(IntervalTierTag)), name, x0, x1, tlen, "name", grid)

ShortName ==
    /\ ShortMode("name")
    /\ Go(tier, StrVal(StripQuotes(data[lineno])), x0, x1, tlen, "tmin", grid)

\* tmin = float(line), outside any try
ShortTmin ==
    /\ ShortMode("tmin")
    /\ IF ~ParseFloat(data[lineno]).ok THEN Fail("ValueError", <<>>)
       ELSE Go(tier, name, x0, x1, tlen, "tmax", grid)

ShortTmax ==
    /\ ShortMode("tmax")
    /\ IF ~ParseFloat(data[lineno]).ok THEN Fail("ValueError", <<>>)
       ELSE Go(tier, name, x0, x1, tlen, "tlen", grid)

\* tlen = int(line), outside any try
ShortTlen ==
    /\ ShortMode("tlen")
    /\ IF ~ParseInt(data[lineno]).ok THEN Fail("ValueError", <<>>)
       ELSE Go(tier, name, x0, x1, ParseInt(data[lineno]).val,
               IF tier.point THEN "xmop" ELSE "xmin", grid)

ShortXmin ==
    /\ ShortMode("xmin")
    /\ IF ~ParseFloat(data[lineno]).ok THEN Fail("ParseError", <<lineno>>)
       ELSE Go(tier, name, FloatVal(ParseFloat(data[lineno]).val), x1, tlen, "xmop", grid)

ShortXmop ==
    /\ ShortMode("xmop")
    /\ IF ~ParseFloat(data[lineno]).ok THEN Fail("ParseError", <<lineno>>)
       ELSE Go(tier, name, x0, FloatVal(ParseFloat(data[lineno]).val), tlen, "text", grid)

\* the element is appended; a tier that has reached tlen elements is stored,
\* any other goes on in mode 'xmin', whatever its variant
ShortText ==
    /\ ShortMode("text")
    /\ LET text == StrVal(StripQuotes(data[lineno]))
           iv   == IntervalInit(text, x0, x1)
           t2   == IF tier.point THEN TierAppend(tier, Point(text, x1))
                   ELSE TierAppend(tier, iv.obj[1])
       IN  IF ~tier.point /\ iv.exc # "" THEN Fail(iv.exc, <<>>)
           ELSE IF Len(t2.elems) = tlen
           THEN Go(NoneTier, NoneVal, x0, x1, tlen, "type", SetItem(grid, name, t2))
           ELSE Go(t2, name, x0, x1, tlen, "xmin", grid)

ShortEnd ==
    /\ pc = "short"
    /\ lineno > Len(data)
    /\ Return(grid)

(***************************************************************************)
(* TextGrid.__repr__ and the way back through write and read.              *)
(***************************************************************************)
Tabs(k) == Indent(k)

\* the exception __repr__ raises on grid g, "" when none: intervals[0] of an
\* empty tier is an IndexError, .xmin or .xmax of a Point an AttributeError
ReprError(g) ==
    LET bad1 == {i \in 1..Len(g) : g[i].tier.elems = <<>> \/ g[i].tier.elems[1].kind = "Point"}
        f    == SetMax({-i : i \in bad1})
    IN  IF bad1 # {}
        THEN IF g[-f].tier.st = "None" THEN "TypeError"
             ELSE IF g[-f].tier.elems = <<>> THEN "IndexError" ELSE "AttributeError"
        ELSE IF \E i \in 1..Len(g) : \E j \in 1..Len(g[i].tier.elems) :
                    g[i].tier.elems[j].kind = "Point"
        THEN "AttributeError"
        ELSE ""

RECURSIVE MinVal(_)
MinVal(vs) ==
    IF Len(vs) = 1 THEN vs[1]
    ELSE LET m == MinVal(Tail(vs)) IN IF ValGT(vs[1], m) THEN m ELSE vs[1]

RECURSIVE MaxVal(_)
MaxVal(vs) ==
    IF Len(vs) = 1 THEN vs[1]
    ELSE LET m == MaxVal(Tail(vs)) IN IF ValGT(m, vs[1]) THEN m ELSE vs[1]

ReprTier(count, nm, elems) ==
    << Tabs(1) \o <<"i","t","e","m"," ","[">> \o IntStr(count) \o <<"]",":">>,
       KeyLine(2, <<"c","l","a","s","s">>, Quoted(IntervalTierTag)),
       KeyLine(2, <<"n","a","m","e">>, Quoted(ToStr(nm))),
       KeyLine(2, <<"x","m","i","n">>, ToStr(elems[1].xmin)),
       KeyLine(2, <<"x","m","a","x">>, ToStr(elems[Len(elems)].xmax)),
       Tabs(2) \o <<"i","n","t","e","r","v","a","l","s",":"," ","s","i","z","e"," ","="," ">>
               \o IntStr(Len(elems)) >>
    \o Flatten([j \in 1..Len(elems) |->
          << Tabs(2) \o <<"i","n","t","e","r","v","a","l","s"," ","[">> \o IntStr(j) \o <<"]",":">>,
             KeyLine(3, <<"x","m","i","n">>, ToStr(elems[j].xmin)),
             KeyLine(3, <<"x","m","a","x">>, ToStr(elems[j].xmax)),
             KeyLine(3, <<"t","e","x","t">>, Quoted(ToStr(elems[j].text))) >>])

\* repr(g): the lines of the long text, or the exception
Repr(g) ==
    IF g = <<>> THEN Returned(Head3)
    ELSE IF ReprError(g) # "" THEN Raised(ReprError(g))
    ELSE Returned(
           Head3
           \o << KeyLine(0, <<"x","m","i","n">>,
                         ToStr(MinVal([i \in 1..Len(g) |-> g[i].tier.elems[1].xmin]))),
                 KeyLine(0, <<"x","m","a","x">>,
                         ToStr(MaxVal([i \in 1..Len(g) |->
                                          g[i].tier.elems[Len(g[i].tier.elems)].xmax]))),
                 LongExistsLine,
                 KeyLine(0, <<"s","i","z","e">>, IntStr(Len(g))),
                 <<"i","t","e","m"," ","[","]",":">> >>
           \o Flatten([i \in 1..Len(g) |-> ReprTier(i, g[i].name, g[i].tier.elems)]))

\* str(grid), as write() puts it into a file, of a grid that a call gave
Write ==
    /\ pc = "done"
    /\ outcome.kind = "ok"
    /\ saved = <<>>
    /\ written' = Repr(grid)
    /\ saved' = <<grid>>
    /\ pc' = "written"
    /\ UNCHANGED <<data, lineno, parser, grid, grid_xmin, grid_xmax, tier, name, x0, x1,
                   tlen, mode, outcome, examined, source, twin, made, subject, call>>

\* the lines of the file that holds '\n'.join(lines): what follows the last
\* line break is a line of the file unless it is empty
WrittenLines(lines) ==
    IF lines # <<>> /\ lines[Len(lines)] = <<>> THEN SubSeq(lines, 1, Len(lines) - 1)
    ELSE lines

\* TextGrid(filename) on the file that write() made
ReadBack ==
    /\ pc = "written"
    /\ written.exc = ""
    /\ StartParse(ReadLines(WrittenLines(written.obj[1])))
    /\ source' = [source EXCEPT !.fmt = "long", !.damage = "written", !.at = 0]
    /\ UNCHANGED <<saved, written, twin, made, subject, call>>

\* TextGrid(filename) on the short text of the content whose long text the
\* call before has parsed
ReadTwin ==
    /\ pc = "done"
    /\ saved = <<>>
    /\ twin = <<>>
    /\ source.fmt = "long"
    /\ source.damage = "none"
    /\ StartParse(ReadLines(ShortEncode(source.content)))
    /\ source' = [source EXCEPT !.fmt = "short"]
    /\ twin' = <<[outcome |-> outcome, grid |-> grid]>>
    /\ UNCHANGED <<saved, written, made, subject, call>>

(***************************************************************************)
(* The specification of reading, parsing and writing.                      *)
(***************************************************************************)
Next ==
    \/ NewTextGrid
    \/ NewTextGridFromBytes
    \/ LongNewTier
    \/ LongNewInterval
    \/ LongNewPoint
    \/ LongValue
    \/ LongSkip
    \/ LongEnd
    \/ ShortType
    \/ ShortName
    \/ ShortTmin
    \/ ShortTmax
    \/ ShortTlen
    \/ ShortXmin
    \/ ShortXmop
    \/ ShortText
    \/ ShortEnd
    \/ Write
    \/ ReadBack
    \/ ReadTwin

Spec == Init /\ [][Next]_vars

(***************************************************************************)
(* A second read on the same TextGrid.                                     *)
(***************************************************************************)
\* the files of the second read: whole files of the small contents
RereadFiles ==
    {Input(fmt, "none", 0, c, Encode(fmt, c)) : fmt \in Layouts, c \in SmallContents}

\* grid = TextGrid(filename) on a whole file
ReadFirst ==
    /\ pc = "idle"
    /\ \E f \in WholeFiles : Read(f)

\* grid.read(filename) on the TextGrid that the first read has filled; call
\* keeps the tiers it held when read was called
ReadAgain ==
    /\ pc = "done"
    /\ outcome.kind = "ok"
    /\ call = NoMethod
    /\ \E f \in RereadFiles :
          /\ EnterOn(grid, grid_xmin, grid_xmax, ReadLines(f.lines),
                     ParseHead(ReadLines(f.lines)))
          /\ source' = Origin(f)
    /\ call' = [op |-> "read", self |-> grid, args |-> <<>>, result |-> Raised("")]
    /\ UNCHANGED <<saved, written, twin, made, subject>>

RereadNext ==
    \/ ReadFirst
    \/ ReadAgain
    \/ LongNewTier
    \/ LongNewInterval
    \/ LongNewPoint
    \/ LongValue
    \/ LongSkip
    \/ LongEnd
    \/ ShortType
    \/ ShortName
    \/ ShortTmin
    \/ ShortTmax
    \/ ShortTlen
    \/ ShortXmin
    \/ ShortXmop
    \/ ShortText
    \/ ShortEnd

RereadSpec == Init /\ [][RereadNext]_vars

(***************************************************************************)
(* The specification of the Interval constructor alone.                    *)
(***************************************************************************)
\* text=None is the default of the constructor
CtorTexts == {NoneVal, StrVal(<<>>), StrVal(<<"a">>)}

CtorTimes == {FloatVal(Half(k)) : k \in 0..MaxTime}

NewInterval ==
    /\ \E text \in CtorTexts, xmin \in CtorTimes, xmax \in CtorTimes :
          made' = [args |-> <<text, xmin, xmax>>, result |-> IntervalInit(text, xmin, xmax)]
    /\ UNCHANGED parseVars
    /\ UNCHANGED <<source, saved, written, twin, subject, call>>

IntervalSpec == Init /\ [][NewInterval]_vars

(***************************************************************************)
(* Interval.timegrid.                                                      *)
(***************************************************************************)
\* a + b, a - b and a * n on floats.  The times of the model are halves and
\* its sums and products of them are exact in binary floating point too.
FloatAdd(a, b) ==
    LET k == IF a.e < b.e THEN a.e ELSE b.e
    IN  Normalize(a.m * Pow10(a.e - k) + b.m * Pow10(b.e - k), k)

FloatSub(a, b) ==
    LET k == IF a.e < b.e THEN a.e ELSE b.e
    IN  Normalize(a.m * Pow10(a.e - k) - b.m * Pow10(b.e - k), k)

FloatMul(a, n) == Normalize(a.m * n, a.e)

\* the argument num: an int, or a float, of h halves
NumInt(n) == [int |-> TRUE, h |-> 2 * n]

NumFloat(h) == [int |-> FALSE, h |-> h]

\* -1 .. MaxNum, 2.0 and 2.5
Nums == {NumInt(n) : n \in -1..MaxNum} \cup {NumFloat(4), NumFloat(5)}

\* self.dur: self.xmax - self.xmin
dur(iv) ==
    IF iv.xmin.t = "float" /\ iv.xmax.t = "float"
    THEN Returned(FloatSub(iv.xmax.f, iv.xmin.f))
    ELSE Raised("TypeError")

\* self.xmin + (step * i) with step = self.dur / num, kept as the quotient
\* f / over of a float by num: (xmin * num + dur * i) / num.  With num a
\* power of two the code's floats are these values; with another num its
\* inner points are the floats nearest to them.
TimePoint(iv, n, i) ==
    [f |-> FloatAdd(FloatMul(iv.xmin.f, n), FloatMul(dur(iv).obj[1], i)), over |-> n]

\* self.timegrid(num)
timegrid(iv, num) ==
    IF num.h <= 2 \/ num.h % 2 # 0 THEN Raised("ValueError")
    ELSE IF dur(iv).exc # "" THEN Raised(dur(iv).exc)
    ELSE IF ~num.int THEN Raised("TypeError")
    ELSE Returned([k \in 1..((num.h \div 2) + 1) |-> TimePoint(iv, num.h \div 2, k - 1)])

\* Interval(text, xmin, xmax), once
MakeInterval ==
    /\ call = NoMethod
    /\ NewInterval

\* made.timegrid(num) on the Interval that was made
Timegrid ==
    /\ call = NoMethod
    /\ made.args # <<>>
    /\ made.result.exc = ""
    /\ \E num \in Nums :
          call' = [op |-> "timegrid", self |-> made.result.obj[1], args |-> <<num>>,
                   result |-> timegrid(made.result.obj[1], num)]
    /\ UNCHANGED parseVars
    /\ UNCHANGED <<source, saved, written, twin, made, subject>>

TimegridNext == MakeInterval \/ Timegrid

TimegridSpec == Init /\ [][TimegridNext]_vars

(***************************************************************************)
(* The specification of the Tier class alone.                              *)
(***************************************************************************)
\* the attributes of a Tier object: Tier.__init__ sets is_point_tier only
TierAttributes == {"is_point_tier"}

\* self.<attr> on a Tier
GetAttr(tr, attr) ==
    IF attr \in TierAttributes THEN Returned(tr.point) ELSE Raised("AttributeError")

\* the class of an object: Interval, Point or Tier
ClassOf(x) == IF "kind" \in DOMAIN x THEN x.kind ELSE x.st

\* Tier.__add__(self, elem).  The last line hands elem to list.__add__,
\* which raises TypeError for a Point, and drops what it returns.
TierAdd(tr, elem) ==
    IF GetAttr(tr, "interval_tier").exc # "" THEN Raised(GetAttr(tr, "interval_tier").exc)
    ELSE IF GetAttr(tr, "interval_tier").obj[1] /\ ClassOf(elem) # "Interval"
         THEN Raised("TypeError")
    ELSE IF ClassOf(elem) # "Point" THEN Raised("TypeError")
    ELSE Raised("TypeError")

\* where a slice bound i falls in a list of n elements (0-based)
SliceBound(n, i) ==
    IF i < 0 THEN (IF i + n < 0 THEN 0 ELSE i + n) ELSE IF i > n THEN n ELSE i

\* s[first:last]
Slice(s, first, last) ==
    SubSeq(s, SliceBound(Len(s), first) + 1, SliceBound(Len(s), last))

\* the 1-based place of s[i], or 0 where s[i] raises IndexError
ItemPlace(s, i) ==
    IF i >= Len(s) \/ i < -Len(s) THEN 0 ELSE IF i < 0 THEN i + Len(s) + 1 ELSE i + 1

\* ''.join([segm.text for segm in area])
RECURSIVE JoinTexts(_)
JoinTexts(area) ==
    IF area = <<>> THEN <<>> ELSE Head(area).text.s \o JoinTexts(Tail(area))

\* Tier.concat(self, first, last).  The last line assigns to the local name
\* self, and adds an Interval to a list, which raises TypeError; the tier
\* itself is never touched.
TierConcat(tr, first, last) ==
    IF GetAttr(tr, "interval_tier").exc # "" THEN Raised(GetAttr(tr, "interval_tier").exc)
    ELSE IF ~GetAttr(tr, "interval_tier").obj[1] THEN Raised("TypeError")
    ELSE IF Slice(tr.elems, first, last) = <<>> THEN Returned(NoneVal)
    ELSE IF ItemPlace(tr.elems, first) = 0 THEN Raised("IndexError")
    ELSE IF ClassOf(tr.elems[ItemPlace(tr.elems, first)]) # "Interval"
         THEN Raised("AttributeError")
    ELSE IF ItemPlace(tr.elems, last) = 0 THEN Raised("IndexError")
    ELSE IF ClassOf(tr.elems[ItemPlace(tr.elems, last)]) # "Interval"
         THEN Raised("AttributeError")
    ELSE IF IntervalInit(StrVal(JoinTexts(Slice(tr.elems, first, last))),
                         tr.elems[ItemPlace(tr.elems, first)].xmin,
                         tr.elems[ItemPlace(tr.elems, last)].xmax).exc # ""
         THEN Raised("TypeError")
    ELSE Raised("TypeError")

\* the elements and the tiers that the calls are given
TierElements ==
    {IntervalOf(ElemText(j), TimeAt(j - 1), TimeAt(j)) : j \in 1..MaxElems}
    \cup {Point(ElemText(j), TimeAt(j)) : j \in 1..MaxElems}

OtherTiers ==
    {[st |-> "Tier", point |-> p, elems |-> es] :
        p \in BOOLEAN, es \in {<<>>} \cup {<<e>> : e \in TierElements}}

\* a method call on the tier: what it was called on and with, what it gave
Method(op, tr, args, result) == [op |-> op, self |-> tr, args |-> args, result |-> result]

\* Tier(point_tier=p)
NewTier ==
    /\ \E p \in BOOLEAN :
          /\ subject' = Tier(p)
          /\ call' = Method("Tier", NoneTier, <<p>>, Returned(Tier(p)))
    /\ UNCHANGED parseVars
    /\ UNCHANGED <<source, saved, written, twin, made>>

\* tier.append(elem): list.append, which Tier does not override
Append1 ==
    /\ subject.st = "Tier"
    /\ Len(subject.elems) < MaxElems
    /\ \E elem \in TierElements :
          /\ subject' = TierAppend(subject, elem)
          /\ call' = Method("append", subject, <<elem>>, Returned(NoneVal))
    /\ UNCHANGED parseVars
    /\ UNCHANGED <<source, saved, written, twin, made>>

\* tier + elem, for an element or another tier
Add ==
    /\ subject.st = "Tier"
    /\ \E elem \in TierElements \cup OtherTiers :
          call' = Method("__add__", subject, <<elem>>, TierAdd(subject, elem))
    /\ UNCHANGED subject
    /\ UNCHANGED parseVars
    /\ UNCHANGED <<source, saved, written, twin, made>>

\* tier.concat(first, last)
Concat ==
    /\ subject.st = "Tier"
    /\ \E first \in (-MaxElems)..MaxElems, last \in (-MaxElems)..MaxElems :
          call' = Method("concat", subject, <<first, last>>, TierConcat(subject, first, last))
    /\ UNCHANGED subject
    /\ UNCHANGED parseVars
    /\ UNCHANGED <<source, saved, written, twin, made>>

TierNext == NewTier \/ Append1 \/ Add \/ Concat

TierSpec == Init /\ [][TierNext]_vars

(***************************************************************************)
(* The symbol tables and the transcoders.  A character is written as       *)
(* itself when it is ASCII (the grave accent, "u0060", excepted) and as    *)
(* "uXXXX" otherwise; a text is a sequence of characters, an escape        *)
(* sequence of Praat three of them.                                        *)
(***************************************************************************)
\* symbols of textgrids/__init__.py, in the order of the dict: the vowels, the
\* consonants, the in-line diacritics (whose \er takes the place of the vowel's)
symbols ==
    <<
    [praat |-> <<"\\", "i", "-">>, uni |-> <<"u0268">>],
    [praat |-> <<"\\", "u", "-">>, uni |-> <<"u0289">>],
    [praat |-> <<"\\", "m", "t">>, uni |-> <<"u026f">>],
    [praat |-> <<"\\", "i", "c">>, uni |-> <<"u026a">>],
    [praat |-> <<"\\", "y", "c">>, uni |-> <<"u028f">>],
    [praat |-> <<"\\", "h", "s">>, uni |-> <<"u028a">>],
    [praat |-> <<"\\", "o", "/">>, uni |-> <<"u00f8">>],
    [praat |-> <<"\\", "e", "-">>, uni |-> <<"u0258">>],
    [praat |-> <<"\\", "o", "-">>, uni |-> <<"u0275">>],
    [praat |-> <<"\\", "r", "h">>, uni |-> <<"u0264">>],
    [praat |-> <<"\\", "s", "w">>, uni |-> <<"u0259">>],
    [praat |-> <<"\\", "e", "f">>, uni |-> <<"u025b">>],
    [praat |-> <<"\\", "o", "e">>, uni |-> <<"u0153">>],
    [praat |-> <<"\\", "e", "r">>, uni |-> <<"u02de">>],
    [praat |-> <<"\\", "k", "b">>, uni |-> <<"u025e">>],
    [praat |-> <<"\\", "v", "t">>, uni |-> <<"u028c">>],
    [praat |-> <<"\\", "c", "t">>, uni |-> <<"u0254">>],
    [praat |-> <<"\\", "a", "e">>, uni |-> <<"u00e6">>],
    [praat |-> <<"\\", "a", "t">>, uni |-> <<"u0250">>],
    [praat |-> <<"\\", "O", "e">>, uni |-> <<"u0276">>],
    [praat |-> <<"\\", "a", "s">>, uni |-> <<"u03b1">>],
    [praat |-> <<"\\", "a", "b">>, uni |-> <<"u0252">>],
    [praat |-> <<"\\", "t", ".">>, uni |-> <<"u0288">>],
    [praat |-> <<"\\", "?", "-">>, uni |-> <<"u02a1">>],
    [praat |-> <<"\\", "?", "g">>, uni |-> <<"u0294">>],
    [praat |-> <<"\\", "d", ".">>, uni |-> <<"u0256">>],
    [praat |-> <<"\\", "j", "-">>, uni |-> <<"u025f">>],
    [praat |-> <<"\\", "g", "s">>, uni |-> <<"u0261">>],
    [praat |-> <<"\\", "g", "c">>, uni |-> <<"u0262">>],
    [praat |-> <<"\\", "m", "j">>, uni |-> <<"u0271">>],
    [praat |-> <<"\\", "n", ".">>, uni |-> <<"u0273">>],
    [praat |-> <<"\\", "n", "g">>, uni |-> <<"u014b">>],
    [praat |-> <<"\\", "n", "c">>, uni |-> <<"u0274">>],
    [praat |-> <<"\\", "f", "f">>, uni |-> <<"u0278">>],
    [praat |-> <<"\\", "t", "f">>, uni |-> <<"u019f">>],
    [praat |-> <<"\\", "l", "-">>, uni |-> <<"u026c">>],
    [praat |-> <<"\\", "s", "h">>, uni |-> <<"u0283">>],
    [praat |-> <<"\\", "s", ".">>, uni |-> <<"u0282">>],
    [praat |-> <<"\\", "c", "c">>, uni |-> <<"u0255">>],
    [praat |-> <<"\\", "c", ",">>, uni |-> <<"u00e7">>],
    [praat |-> <<"\\", "w", "t">>, uni |-> <<"u028d">>],
    [praat |-> <<"\\", "c", "f">>, uni |-> <<"u03c7">>],
    [praat |-> <<"\\", "h", "-">>, uni |-> <<"u0127">>],
    [praat |-> <<"\\", "h", "c">>, uni |-> <<"u029c">>],
    [praat |-> <<"\\", "b", "f">>, uni |-> <<"u03b2">>],
    [praat |-> <<"\\", "d", "h">>, uni |-> <<"u00f0">>],
    [praat |-> <<"\\", "l", "z">>, uni |-> <<"u026e">>],
    [praat |-> <<"\\", "z", "h">>, uni |-> <<"u0292">>],
    [praat |-> <<"\\", "z", ".">>, uni |-> <<"u0290">>],
    [praat |-> <<"\\", "z", "c">>, uni |-> <<"u0291">>],
    [praat |-> <<"\\", "j", "c">>, uni |-> <<"u029d">>],
    [praat |-> <<"\\", "g", "f">>, uni |-> <<"u0263">>],
    [praat |-> <<"\\", "r", "i">>, uni |-> <<"u0281">>],
    [praat |-> <<"\\", "9", "e">>, uni |-> <<"u0295">>],
    [praat |-> <<"\\", "9", "-">>, uni |-> <<"u02a2">>],
    [praat |-> <<"\\", "h", "^">>, uni |-> <<"u0266">>],
    [praat |-> <<"\\", "v", "s">>, uni |-> <<"u028b">>],
    [praat |-> <<"\\", "r", "t">>, uni |-> <<"u0279">>],
    [praat |-> <<"\\", "r", ".">>, uni |-> <<"u027b">>],
    [praat |-> <<"\\", "h", "t">>, uni |-> <<"u0265">>],
    [praat |-> <<"\\", "m", "l">>, uni |-> <<"u0270">>],
    [praat |-> <<"\\", "b", "c">>, uni |-> <<"u0299">>],
    [praat |-> <<"\\", "r", "c">>, uni |-> <<"u0280">>],
    [praat |-> <<"\\", "f", "h">>, uni |-> <<"u027e">>],
    [praat |-> <<"\\", "r", "l">>, uni |-> <<"u027a">>],
    [praat |-> <<"\\", "f", ".">>, uni |-> <<"u027d">>],
    [praat |-> <<"\\", "l", ".">>, uni |-> <<"u026d">>],
    [praat |-> <<"\\", "y", "t">>, uni |-> <<"u028e">>],
    [praat |-> <<"\\", "l", "c">>, uni |-> <<"u029f">>],
    [praat |-> <<"\\", "b", "^">>, uni |-> <<"u0253">>],
    [praat |-> <<"\\", "d", "^">>, uni |-> <<"u0257">>],
    [praat |-> <<"\\", "j", "^">>, uni |-> <<"u0284">>],
    [praat |-> <<"\\", "g", "^">>, uni |-> <<"u0260">>],
    [praat |-> <<"\\", "G", "^">>, uni |-> <<"u029b">>],
    [praat |-> <<"\\", "O", ".">>, uni |-> <<"u0298">>],
    [praat |-> <<"\\", "|", "1">>, uni |-> <<"u01c0">>],
    [praat |-> <<"\\", "|", "2">>, uni |-> <<"u01c1">>],
    [praat |-> <<"\\", "|", "-">>, uni |-> <<"u01c2">>],
    [praat |-> <<"\\", "l", "~">>, uni |-> <<"u026b">>],
    [praat |-> <<"\\", "h", "j">>, uni |-> <<"u0267">>],
    [praat |-> <<"\\", ":", "f">>, uni |-> <<"u02d0">>],
    [praat |-> <<"\\", ".", "f">>, uni |-> <<"u02d1">>],
    [praat |-> <<"\\", "'", "1">>, uni |-> <<"u02c8">>],
    [praat |-> <<"\\", "'", "2">>, uni |-> <<"u02cc">>],
    [praat |-> <<"\\", "|", "f">>, uni |-> <<"|">>],
    [praat |-> <<"\\", "c", "n">>, uni |-> <<"u031a">>]
    >>

\* diacritics of textgrids/__init__.py: the over- and understrikes
diacritics ==
    <<
    [praat |-> <<"\\", "|", "v">>, uni |-> <<"u0329">>],
    [praat |-> <<"\\", "0", "v">>, uni |-> <<"u0325">>],
    [praat |-> <<"\\", "T", "v">>, uni |-> <<"u031e">>],
    [praat |-> <<"\\", "T", "^">>, uni |-> <<>>],
    [praat |-> <<"\\", "T", "(">>, uni |-> <<"u0318">>],
    [praat |-> <<"\\", "T", ")">>, uni |-> <<"u0319">>],
    [praat |-> <<"\\", "-", "v">>, uni |-> <<"u0320">>],
    [praat |-> <<"\\", "+", "v">>, uni |-> <<"u031f">>],
    [praat |-> <<"\\", ":", "v">>, uni |-> <<"u0324">>],
    [praat |-> <<"\\", "~", "v">>, uni |-> <<"u0330">>],
    [praat |-> <<"\\", "N", "v">>, uni |-> <<"u032a">>],
    [praat |-> <<"\\", "U", "v">>, uni |-> <<"u033a">>],
    [praat |-> <<"\\", "D", "v">>, uni |-> <<"u033b">>],
    [praat |-> <<"\\", "n", "v">>, uni |-> <<"u032f">>],
    [praat |-> <<"\\", "3", "v">>, uni |-> <<"u0339">>],
    [praat |-> <<"\\", "c", "v">>, uni |-> <<"u031c">>],
    [praat |-> <<"\\", "0", "^">>, uni |-> <<"u030a">>],
    [praat |-> <<"\\", "'", "^">>, uni |-> <<"u0301">>],
    [praat |-> <<"\\", "u0060", "^">>, uni |-> <<"u0300">>],
    [praat |-> <<"\\", "-", "^">>, uni |-> <<"u0304">>],
    [praat |-> <<"\\", "~", "^">>, uni |-> <<"u0303">>],
    [praat |-> <<"\\", "v", "^">>, uni |-> <<"u030c">>],
    [praat |-> <<"\\", "^", "^">>, uni |-> <<"u0302">>],
    [praat |-> <<"\\", ":", "^">>, uni |-> <<"u0308">>],
    [praat |-> <<"\\", "N", "^">>, uni |-> <<"u0306">>],
    [praat |-> <<"\\", "l", "i">>, uni |-> <<"u0361">>]
    >>

\* vowels of textgrids/__init__.py: the letters, the escape sequences of the
\* vowel symbols and their characters, as the list is made before the
\* consonants and diacritics are added
vowels ==
    <<
    <<"a">>,
    <<"e">>,
    <<"i">>,
    <<"o">>,
    <<"u">>,
    <<"y">>,
    <<"u00e6">>,
    <<"u00f8">>,
    <<"\\", "i", "-">>,
    <<"\\", "u", "-">>,
    <<"\\", "m", "t">>,
    <<"\\", "i", "c">>,
    <<"\\", "y", "c">>,
    <<"\\", "h", "s">>,
    <<"\\", "o", "/">>,
    <<"\\", "e", "-">>,
    <<"\\", "o", "-">>,
    <<"\\", "r", "h">>,
    <<"\\", "s", "w">>,
    <<"\\", "e", "f">>,
    <<"\\", "o", "e">>,
    <<"\\", "e", "r">>,
    <<"\\", "k", "b">>,
    <<"\\", "v", "t">>,
    <<"\\", "c", "t">>,
    <<"\\", "a", "e">>,
    <<"\\", "a", "t">>,
    <<"\\", "O", "e">>,
    <<"\\", "a", "s">>,
    <<"\\", "a", "b">>,
    <<"u0268">>,
    <<"u0289">>,
    <<"u026f">>,
    <<"u026a">>,
    <<"u028f">>,
    <<"u028a">>,
    <<"u00f8">>,
    <<"u0258">>,
    <<"u0275">>,
    <<"u0264">>,
    <<"u0259">>,
    <<"u025b">>,
    <<"u0153">>,
    <<"u025c">>,
    <<"u025e">>,
    <<"u028c">>,
    <<"u0254">>,
    <<"u00e6">>,
    <<"u0250">>,
    <<"u0276">>,
    <<"u03b1">>,
    <<"u0252">>
    >>

\* symbols of textgrids/transcript.py
transcript_symbols ==
    <<
    [praat |-> <<"\\", "i", "-">>, uni |-> <<"u0268">>],
    [praat |-> <<"\\", "u", "-">>, uni |-> <<"u0289">>],
    [praat |-> <<"\\", "m", "t">>, uni |-> <<"u026f">>],
    [praat |-> <<"\\", "i", "c">>, uni |-> <<"u026a">>],
    [praat |-> <<"\\", "y", "c">>, uni |-> <<"u028f">>],
    [praat |-> <<"\\", "h", "s">>, uni |-> <<"u028a">>],
    [praat |-> <<"\\", "o", "/">>, uni |-> <<"u00f8">>],
    [praat |-> <<"\\", "e", "-">>, uni |-> <<"u0258">>],
    [praat |-> <<"\\", "o", "-">>, uni |-> <<"u0275">>],
    [praat |-> <<"\\", "r", "h">>, uni |-> <<"u0264">>],
    [praat |-> <<"\\", "s", "w">>, uni |-> <<"u0259">>],
    [praat |-> <<"\\", "e", "f">>, uni |-> <<"u025b">>],
    [praat |-> <<"\\", "o", "e">>, uni |-> <<"u0153">>],
    [praat |-> <<"\\", "e", "r">>, uni |-> <<"u025c">>],
    [praat |-> <<"\\", "k", "b">>, uni |-> <<"u025e">>],
    [praat |-> <<"\\", "v", "t">>, uni |-> <<"u028c">>],
    [praat |-> <<"\\", "c", "t">>, uni |-> <<"u0254">>],
    [praat |-> <<"\\", "a", "e">>, uni |-> <<"u00e6">>],
    [praat |-> <<"\\", "a", "t">>, uni |-> <<"u0250">>],
    [praat |-> <<"\\", "O", "e">>, uni |-> <<"u0276">>],
    [praat |-> <<"\\", "a", "s">>, uni |-> <<"u0251">>],
    [praat |-> <<"\\", "a", "b">>, uni |-> <<"u0252">>],
    [praat |-> <<"\\", "t", ".">>, uni |-> <<"u0288">>],
    [praat |-> <<"\\", "?", "-">>, uni |-> <<"u02a1">>],
    [praat |-> <<"\\", "?", "g">>, uni |-> <<"u0294">>],
    [praat |-> <<"\\", "d", ".">>, uni |-> <<"u0256">>],
    [praat |-> <<"\\", "j", "-">>, uni |-> <<"u025f">>],
    [praat |-> <<"\\", "g", "s">>, uni |-> <<"u0261">>],
    [praat |-> <<"\\", "g", "c">>, uni |-> <<"u0262">>],
    [praat |-> <<"\\", "m", "j">>, uni |-> <<"u0271">>],
    [praat |-> <<"\\", "n", ".">>, uni |-> <<"u0273">>],
    [praat |-> <<"\\", "n", "g">>, uni |-> <<"u014b">>],
    [praat |-> <<"\\", "n", "c">>, uni |-> <<"u0274">>],
    [praat |-> <<"\\", "f", "f">>, uni |-> <<"u0278">>],
    [praat |-> <<"\\", "t", "f">>, uni |-> <<"u019f">>],
    [praat |-> <<"\\", "l", "-">>, uni |-> <<"u026c">>],
    [praat |-> <<"\\", "s", "h">>, uni |-> <<"u0283">>],
    [praat |-> <<"\\", "s", ".">>, uni |-> <<"u0282">>],
    [praat |-> <<"\\", "c", "c">>, uni |-> <<"u0255">>],
    [praat |-> <<"\\", "c", ",">>, uni |-> <<"u00e7">>],
    [praat |-> <<"\\", "w", "t">>, uni |-> <<"u028d">>],
    [praat |-> <<"\\", "c", "f">>, uni |-> <<"u03c7">>],
    [praat |-> <<"\\", "h", "-">>, uni |-> <<"u0127">>],
    [praat |-> <<"\\", "h", "c">>, uni |-> <<"u029c">>],
    [praat |-> <<"\\", "b", "f">>, uni |-> <<"u03b2">>],
    [praat |-> <<"\\", "d", "h">>, uni |-> <<"u00f0">>],
    [praat |-> <<"\\", "l", "z">>, uni |-> <<"u026e">>],
    [praat |-> <<"\\", "z", "h">>, uni |-> <<"u0292">>],
    [praat |-> <<"\\", "z", ".">>, uni |-> <<"u0290">>],
    [praat |-> <<"\\", "z", "c">>, uni |-> <<"u0291">>],
    [praat |-> <<"\\", "j", "c">>, uni |-> <<"u029d">>],
    [praat |-> <<"\\", "g", "f">>, uni |-> <<"u0263">>],
    [praat |-> <<"\\", "r", "i">>, uni |-> <<"u0281">>],
    [praat |-> <<"\\", "9", "e">>, uni |-> <<"u0295">>],
    [praat |-> <<"\\", "9", "-">>, uni |-> <<"u02a2">>],
    [praat |-> <<"\\", "h", "^">>, uni |-> <<"u0266">>],
    [praat |-> <<"\\", "v", "s">>, uni |-> <<"u028b">>],
    [praat |-> <<"\\", "r", "t">>, uni |-> <<"u0279">>],
    [praat |-> <<"\\", "r", ".">>, uni |-> <<"u027b">>],
    [praat |-> <<"\\", "h", "t">>, uni |-> <<"u0265">>],
    [praat |-> <<"\\", "m", "l">>, uni |-> <<"u0270">>],
    [praat |-> <<"\\", "b", "c">>, uni |-> <<"u0299">>],
    [praat |-> <<"\\", "r", "c">>, uni |-> <<"u0280">>],
    [praat |-> <<"\\", "f", "h">>, uni |-> <<"u027e">>],
    [praat |-> <<"\\", "r", "l">>, uni |-> <<"u027a">>],
    [praat |-> <<"\\", "f", ".">>, uni |-> <<"u027d">>],
    [praat |-> <<"\\", "l", ".">>, uni |-> <<"u026d">>],
    [praat |-> <<"\\", "y", "t">>, uni |-> <<"u028e">>],
    [praat |-> <<"\\", "l", "c">>, uni |-> <<"u029f">>],
    [praat |-> <<"\\", "b", "^">>, uni |-> <<"u0253">>],
    [praat |-> <<"\\", "d", "^">>, uni |-> <<"u0257">>],
    [praat |-> <<"\\", "j", "^">>, uni |-> <<"u0284">>],
    [praat |-> <<"\\", "g", "^">>, uni |-> <<"u0260">>],
    [praat |-> <<"\\", "G", "^">>, uni |-> <<"u029b">>],
    [praat |-> <<"\\", "O", ".">>, uni |-> <<"u0298">>],
    [praat |-> <<"\\", "|", "1">>, uni |-> <<"u01c0">>],
    [praat |-> <<"\\", "|", "2">>, uni |-> <<"u01c1">>],
    [praat |-> <<"\\", "|", "-">>, uni |-> <<"u01c2">>],
    [praat |-> <<"\\", "l", "~">>, uni |-> <<"u026b">>],
    [praat |-> <<"\\", "h", "j">>, uni |-> <<"u0267">>]
    >>

\* inline_diacritics of textgrids/transcript.py
inline_diacritics ==
    <<
    [praat |-> <<"\\", ":", "f">>, uni |-> <<"u02d0">>],
    [praat |-> <<"\\", ".", "f">>, uni |-> <<"u02d1">>],
    [praat |-> <<"\\", "'", "1">>, uni |-> <<"u02c8">>],
    [praat |-> <<"\\", "'", "2">>, uni |-> <<"u02cc">>],
    [praat |-> <<"\\", "|", "f">>, uni |-> <<"|">>],
    [praat |-> <<"\\", "c", "n">>, uni |-> <<"u031a">>],
    [praat |-> <<"\\", "e", "r">>, uni |-> <<"u02de">>]
    >>

\* index_diacritics of textgrids/transcript.py
index_diacritics ==
    <<
    [praat |-> <<"\\", "|", "v">>, uni |-> <<"u0329">>],
    [praat |-> <<"\\", "0", "v">>, uni |-> <<"u0325">>],
    [praat |-> <<"\\", "T", "v">>, uni |-> <<"u031e">>],
    [praat |-> <<"\\", "T", "^">>, uni |-> <<"u031d">>],
    [praat |-> <<"\\", "T", "(">>, uni |-> <<"u0318">>],
    [praat |-> <<"\\", "T", ")">>, uni |-> <<"u0319">>],
    [praat |-> <<"\\", "-", "v">>, uni |-> <<"u0320">>],
    [praat |-> <<"\\", "+", "v">>, uni |-> <<"u031f">>],
    [praat |-> <<"\\", ":", "v">>, uni |-> <<"u0324">>],
    [praat |-> <<"\\", "~", "v">>, uni |-> <<"u0330">>],
    [praat |-> <<"\\", "N", "v">>, uni |-> <<"u032a">>],
    [praat |-> <<"\\", "U", "v">>, uni |-> <<"u033a">>],
    [praat |-> <<"\\", "D", "v">>, uni |-> <<"u033b">>],
    [praat |-> <<"\\", "n", "v">>, uni |-> <<"u032f">>],
    [praat |-> <<"\\", "3", "v">>, uni |-> <<"u0339">>],
    [praat |-> <<"\\", "c", "v">>, uni |-> <<"u031c">>],
    [praat |-> <<"\\", "0", "^">>, uni |-> <<"u030a">>],
    [praat |-> <<"\\", "'", "^">>, uni |-> <<"u0301">>],
    [praat |-> <<"\\", "u0060", "^">>, uni |-> <<"u0300">>],
    [praat |-> <<"\\", "-", "^">>, uni |-> <<"u0304">>],
    [praat |-> <<"\\", "~", "^">>, uni |-> <<"u0303">>],
    [praat |-> <<"\\", "v", "^">>, uni |-> <<"u030c">>],
    [praat |-> <<"\\", "^", "^">>, uni |-> <<"u0302">>],
    [praat |-> <<"\\", ":", "^">>, uni |-> <<"u0308">>],
    [praat |-> <<"\\", "N", "^">>, uni |-> <<"u0306">>],
    [praat |-> <<"\\", "l", "i">>, uni |-> <<"u0361">>]
    >>

\* out.replace(old, new), old not empty
RECURSIVE Replace(_, _, _)
Replace(s, old, new) ==
    IF Len(s) < Len(old) THEN s
    ELSE IF SubSeq(s, 1, Len(old)) = old THEN new \o Replace(Drop(s, Len(old)), old, new)
    ELSE <<Head(s)>> \o Replace(Tail(s), old, new)

\* out.find(sub, start): the first place (0-based) from start on, -1 if none
Find(s, sub, start) ==
    IF \A i \in start..(Len(s) - Len(sub)) : SubSeq(s, i + 1, i + Len(sub)) # sub THEN -1
    ELSE CHOOSE i \in start..(Len(s) - Len(sub)) :
            /\ SubSeq(s, i + 1, i + Len(sub)) = sub
            /\ \A j \in start..(i - 1) : SubSeq(s, j + 1, j + Len(sub)) # sub

\* The loops over a dict go through its items lo..hi in order; they are
\* written by halves (the first half, then the second on what the first
\* gave), and each half looks at the text it is given before it goes on
\* (there is nothing to replace in an empty text, and nothing runs after an
\* exception), which keeps the evaluation shallow.
Mid(lo, hi) == (lo + hi) \div 2

\* Transcript.transcode of textgrids/__init__.py: the loop over symbols
SymbolsStep(out, to_unicode, k) ==
    IF to_unicode THEN Replace(out, symbols[k].praat, symbols[k].uni)
    ELSE Replace(out, symbols[k].uni, symbols[k].praat)

RECURSIVE SymbolsLoop(_, _, _, _)
SymbolsLoop(out, to_unicode, lo, hi) ==
    IF out = <<>> THEN out
    ELSE IF lo = hi THEN SymbolsStep(out, to_unicode, lo)
    ELSE SymbolsLoop(SymbolsLoop(out, to_unicode, lo, Mid(lo, hi)),
                     to_unicode, Mid(lo, hi) + 1, hi)

\* the loop over diacritics: the escape sequence is replaced, whatever the
\* direction
RECURSIVE DiacriticsLoop(_, _, _, _)
DiacriticsLoop(out, retain_diacritics, lo, hi) ==
    IF out = <<>> THEN out
    ELSE IF lo = hi
    THEN Replace(out, diacritics[lo].praat,
                 IF retain_diacritics THEN diacritics[lo].uni ELSE <<>>)
    ELSE DiacriticsLoop(DiacriticsLoop(out, retain_diacritics, lo, Mid(lo, hi)),
                        retain_diacritics, Mid(lo, hi) + 1, hi)

\* Transcript(text).transcode(to_unicode, retain_diacritics), textgrids/__init__.py
transcode(text, to_unicode, retain_diacritics) ==
    Returned(DiacriticsLoop(SymbolsLoop(text, to_unicode, 1, Len(symbols)),
                            retain_diacritics, 1, Len(diacritics)))

\* d.update(e): a key of d keeps its place and takes the value of e, the
\* other keys of e follow
RECURSIVE Update(_, _)
Update(d, e) ==
    IF e = <<>> THEN d
    ELSE IF \E i \in 1..Len(d) : d[i].praat = Head(e).praat
         THEN Update([i \in 1..Len(d) |->
                         IF d[i].praat = Head(e).praat THEN Head(e) ELSE d[i]], Tail(e))
    ELSE Update(Append(d, Head(e)), Tail(e))

\* inline_symbols = symbols.copy(); inline_symbols.update(inline_diacritics)
inline_symbols == Update(transcript_symbols, inline_diacritics)

\* out[:p] + out[p + 1] + out[p] + out[p + 2:]
Swapped(out, p) ==
    SubSeq(out, 1, p) \o <<out[p + 2], out[p + 1]>> \o Drop(out, p + 2)

\* first stage, retaining: the while loop for one combining mark
RECURSIVE SwapLoop(_, _, _)
SwapLoop(out, uni, p) ==
    IF p < 0 THEN Returned(out)
    ELSE IF p + 1 >= Len(out) THEN Raised("IndexError")
    ELSE SwapLoop(Swapped(out, p), uni, Find(Swapped(out, p), uni, p + 2))

\* first stage (Unicode to Praat only): the index diacritics are swapped with
\* the character after them, or removed
StageOneStep(r, retain_diacritics, k) ==
    IF r.exc # "" THEN r
    ELSE IF retain_diacritics
         THEN SwapLoop(r.obj[1], index_diacritics[k].uni,
                       Find(r.obj[1], index_diacritics[k].uni, 0))
    ELSE Returned(Replace(r.obj[1], index_diacritics[k].uni, <<>>))

RECURSIVE StageOne(_, _, _, _)
StageOne(r, retain_diacritics, lo, hi) ==
    IF r.exc # "" THEN r
    ELSE IF lo = hi THEN StageOneStep(r, retain_diacritics, lo)
    ELSE StageOne(StageOne(r, retain_diacritics, lo, Mid(lo, hi)),
                  retain_diacritics, Mid(lo, hi) + 1, hi)

\* second stage: the inline symbols
StageTwoStep(out, to_unicode, k) ==
    IF to_unicode THEN Replace(out, inline_symbols[k].praat, inline_symbols[k].uni)
    ELSE Replace(out, inline_symbols[k].uni, inline_symbols[k].praat)

RECURSIVE StageTwo(_, _, _, _)
StageTwo(out, to_unicode, lo, hi) ==
    IF out = <<>> THEN out
    ELSE IF lo = hi THEN StageTwoStep(out, to_unicode, lo)
    ELSE StageTwo(StageTwo(out, to_unicode, lo, Mid(lo, hi)), to_unicode, Mid(lo, hi) + 1, hi)

\* index_diacritics[key]: the value in a one-element sequence, <<>> when the
\* key is none of the dict (KeyError)
Lookup(key) ==
    IF \A i \in 1..Len(index_diacritics) : index_diacritics[i].praat # key THEN <<>>
    ELSE <<(CHOOSE i \in 1..Len(index_diacritics) : index_diacritics[i].praat = key)>>

\* out[:p - 1] + index_diacritics[out[p:p + 3]] + out[p - 1] + out[p + 3:]
Relocated(out, p) ==
    SubSeq(out, 1, p - 1)
    \o index_diacritics[Lookup(SubSeq(out, p + 1, p + 3))[1]].uni
    \o <<out[p]>> \o Drop(out, p + 3)

\* third stage: the while loop for one escape sequence.  p = out.index('\\')
\* is the first backslash of out, whatever sequence it begins.  When that
\* is place 0, out[:p - 1] is all of out but its last character: out grows
\* at every turn and the sequence looked for stays in it, until MemoryError.
RECURSIVE RelocateLoop(_, _, _)
RelocateLoop(out, praat, p) ==
    IF Find(out, praat, p) <= 0 THEN Returned(out)
    ELSE IF Lookup(SubSeq(out, Find(out, <<"\\">>, 0) + 1, Find(out, <<"\\">>, 0) + 3)) = <<>>
         THEN Raised("KeyError")
    ELSE IF Find(out, <<"\\">>, 0) = 0 THEN Raised("MemoryError")
    ELSE RelocateLoop(Relocated(out, Find(out, <<"\\">>, 0)), praat,
                      Find(out, <<"\\">>, 0) + 2)

\* third stage (Praat to Unicode, retaining): the index diacritics are put
\* before the character they follow
RECURSIVE StageThree(_, _, _)
StageThree(r, lo, hi) ==
    IF r.exc # "" THEN r
    ELSE IF lo = hi THEN RelocateLoop(r.obj[1], index_diacritics[lo].praat, 0)
    ELSE StageThree(StageThree(r, lo, Mid(lo, hi)), Mid(lo, hi) + 1, hi)

\* fourth stage: the index diacritics themselves
StageFourStep(out, to_unicode, retain_diacritics, k) ==
    IF to_unicode
    THEN Replace(out, index_diacritics[k].praat,
                 IF retain_diacritics THEN index_diacritics[k].uni ELSE <<>>)
    ELSE IF retain_diacritics
    THEN Replace(out, index_diacritics[k].uni, index_diacritics[k].praat)
    ELSE out

RECURSIVE StageFour(_, _, _, _, _)
StageFour(out, to_unicode, retain_diacritics, lo, hi) ==
    IF out = <<>> THEN out
    ELSE IF lo = hi THEN StageFourStep(out, to_unicode, retain_diacritics, lo)
    ELSE StageFour(StageFour(out, to_unicode, retain_diacritics, lo, Mid(lo, hi)),
                   to_unicode, retain_diacritics, Mid(lo, hi) + 1, hi)

\* the stages after the first, on what the first gave
AfterStageOne(r, to_unicode, retain_diacritics) ==
    IF r.exc # "" THEN r
    ELSE IF to_unicode /\ retain_diacritics
         THEN StageThree(Returned(StageTwo(r.obj[1], to_unicode, 1, Len(inline_symbols))),
                         1, Len(index_diacritics))
    ELSE Returned(StageTwo(r.obj[1], to_unicode, 1, Len(inline_symbols)))

AfterStageThree(r, to_unicode, retain_diacritics) ==
    IF r.exc # "" THEN r
    ELSE Returned(StageFour(r.obj[1], to_unicode, retain_diacritics,
                            1, Len(index_diacritics)))

\* Transcript(text).transcode(to_unicode, retain_diacritics), textgrids/transcript.py
transcript_transcode(text, to_unicode, retain_diacritics) ==
    AfterStageThree(
        AfterStageOne(IF to_unicode THEN Returned(text)
                      ELSE StageOne(Returned(text), retain_diacritics,
                                    1, Len(index_diacritics)),
                      to_unicode, retain_diacritics),
        to_unicode, retain_diacritics)

\* any([vow in self.text for vow in vowels])
containsvowel(text) == \E k \in 1..Len(vowels) : Find(text, vowels[k], 0) >= 0

\* any([self.text.startswith(vow) for vow in vowels])
startswithvowel(text) == \E k \in 1..Len(vowels) : StartsWith(text, vowels[k])

(***************************************************************************)
(* The specification of the transcoders and the vowel predicates.          *)
(***************************************************************************)
\* what the labels are made of, in Praat's notation: a letter, a vowel, two
\* consonants, the sequence that is both a vowel and an in-line diacritic,
\* two index diacritics
PraatItems ==
    { <<"a">>, <<"\\", "s", "w">>, <<"\\", "y", "t">>, <<"\\", "|", "1">>,
      <<"\\", "e", "r">>, <<"\\", "0", "v">>, <<"\\", "~", "^">> }

\* the same in Unicode
UnicodeItems ==
    { <<"a">>, <<"u0259">>, <<"u028e">>, <<"u01c0">>, <<"u02de">>, <<"u0325">>, <<"u0303">> }

\* the texts of at most n items
RECURSIVE TextsOf(_, _)
TextsOf(items, n) ==
    IF n = 0 THEN {<<>>}
    ELSE TextsOf(items, n - 1) \cup {t \o i : t \in TextsOf(items, n - 1), i \in items}

PraatTexts == TextsOf(PraatItems, MaxItems)

UnicodeTexts == TextsOf(UnicodeItems, MaxItems)

\* the transcoder of textgrids/__init__.py ("package") or the one of
\* textgrids/transcript.py ("transcript")
Transcoders == {"package", "transcript"}

TranscodeBy(which, text, to_unicode, retain_diacritics) ==
    IF which = "package" THEN transcode(text, to_unicode, retain_diacritics)
    ELSE transcript_transcode(text, to_unicode, retain_diacritics)

\* Transcript(text).transcode(to_unicode, retain_diacritics) on a text in the
\* notation it is transcoded from
Transcode ==
    /\ call = NoMethod
    /\ \E which \in Transcoders, to_unicode \in BOOLEAN, retain \in BOOLEAN :
         \E text \in (IF to_unicode THEN PraatTexts ELSE UnicodeTexts) :
            call' = Method("transcode", text, <<which, to_unicode, retain>>,
                           TranscodeBy(which, text, to_unicode, retain))
    /\ UNCHANGED parseVars
    /\ UNCHANGED <<source, saved, written, twin, made, subject>>

\* the Unicode text that the last call gave, transcoded back by the same
\* transcoder with the same retain_diacritics
TranscodeBack ==
    /\ call.op = "transcode"
    /\ call.args[2]
    /\ call.result.exc = ""
    /\ call' = Method("back", call.self, <<call.args[1], FALSE, call.args[3]>>,
                      TranscodeBy(call.args[1], call.result.obj[1], FALSE, call.args[3]))
    /\ UNCHANGED parseVars
    /\ UNCHANGED <<source, saved, written, twin, made, subject>>

\* Interval(t).containsvowel() and Interval(t).startswithvowel(), on a label
\* and on the label transcoded to Unicode
VowelPredicates ==
    /\ call = NoMethod
    /\ \E t \in PraatTexts :
          call' = Method("vowels", t, <<transcode(t, TRUE, FALSE).obj[1]>>,
                         <<containsvowel(t), startswithvowel(t),
                           containsvowel(transcode(t, TRUE, FALSE).obj[1]),
                           startswithvowel(transcode(t, TRUE, FALSE).obj[1])>>)
    /\ UNCHANGED parseVars
    /\ UNCHANGED <<source, saved, written, twin, made, subject>>

TranscodeNext == Transcode \/ TranscodeBack \/ VowelPredicates

TranscodeSpec == Init /\ [][TranscodeNext]_vars

(***************************************************************************)
(* TextGrid.tier_from_csv.  A delimited file is a sequence of lines.       *)
(***************************************************************************)
\* line.split(';')
RECURSIVE SplitOn(_, _, _)
SplitOn(line, sep, field) ==
    IF line = <<>> THEN <<field>>
    ELSE IF Head(line) = sep THEN <<field>> \o SplitOn(Tail(line), sep, <<>>)
    ELSE SplitOn(Tail(line), sep, Append(field, Head(line)))

\* a field as csv.reader gives it: the quotes around a quoted field go (no
\* field of the model's files holds a quote or a delimiter inside)
Unquoted(field) ==
    IF Len(field) >= 2 /\ Head(field) = Quote /\ field[Len(field)] = Quote
    THEN SubSeq(field, 2, Len(field) - 1)
    ELSE field

\* csv.reader(csvfile, delimiter=';') on one line: the list of its fields,
\* [] for an empty line
CsvFields(line) ==
    IF line = <<>> THEN <<>>
    ELSE [i \in 1..Len(SplitOn(line, ";", <<>>)) |-> Unquoted(SplitOn(line, ";", <<>>)[i])]

\* the element made of one row: Point(text, xpos) for two fields,
\* Interval(text, xmin, xmax) for three (which may raise), else ValueError;
\* the fields are passed as they are, as str
CsvElem(fields) ==
    IF Len(fields) = 2 THEN Returned(Point(StrVal(fields[1]), StrVal(fields[2])))
    ELSE IF Len(fields) = 3
    THEN IntervalInit(StrVal(fields[1]), StrVal(fields[2]), StrVal(fields[3]))
    ELSE Raised("ValueError")

\* 'if not tier:' then tier.append(elem): the tier is made at the first row,
\* of the variant of that row
CsvAppend(tr, elem) ==
    TierAppend(IF ~Truthy(tr) THEN Tier(elem.kind = "Point") ELSE tr, elem)

\* the loop over the rows: the tier when every row has been taken, or the
\* exception of the first row that raises
RECURSIVE CsvLoop(_, _)
CsvLoop(tr, lines) ==
    IF lines = <<>> THEN Returned(tr)
    ELSE IF CsvElem(CsvFields(Head(lines))).exc # ""
    THEN Raised(CsvElem(CsvFields(Head(lines))).exc)
    ELSE CsvLoop(CsvAppend(tr, CsvElem(CsvFields(Head(lines))).obj[1]), Tail(lines))

\* self.tier_from_csv(tier_name, filename): [exc, obj], obj the grid after
\* the call when it returns (self[tier_name] = tier is the last statement)
tier_from_csv(g, tier_name, lines) ==
    IF CsvLoop(NoneTier, lines).exc # "" THEN Raised(CsvLoop(NoneTier, lines).exc)
    ELSE Returned(SetItem(g, tier_name, CsvLoop(NoneTier, lines).obj[1]))

\* the fields of the model's files: two labels, one of them quoted, and four
\* times, of which "9" < "10" as numbers and "9" > "10" as str
CsvLabels == { <<"k">>, Quoted(<<"a">>) }

CsvTimes == { <<"0",".","0">>, <<"0",".","3">>, <<"9">>, <<"1","0">> }

\* the rows: of no field (an empty line), one, two, three and four fields
CsvRows ==
    { <<>>, <<"k">>, <<"k",";","0",";","1",";","2">> }
    \cup {l \o <<";">> \o t : l \in CsvLabels, t \in CsvTimes}
    \cup {l \o <<";">> \o t \o <<";">> \o u : l \in CsvLabels, t \in CsvTimes, u \in CsvTimes}

\* the files of at most n rows
RECURSIVE CsvFilesOf(_)
CsvFilesOf(n) ==
    IF n = 0 THEN {<<>>}
    ELSE CsvFilesOf(n - 1) \cup {Append(f, r) : f \in CsvFilesOf(n - 1), r \in CsvRows}

CsvFiles == CsvFilesOf(MaxRows)

CsvTierName == StrVal(<<"t">>)

\* TextGrid().tier_from_csv('t', filename) on one of the files
TierFromCsv ==
    /\ pc = "idle"
    /\ call = NoMethod
    /\ \E f \in CsvFiles :
          /\ call' = [op |-> "tier_from_csv", self |-> grid, args |-> <<CsvTierName, f>>,
                       result |-> tier_from_csv(grid, CsvTierName, f)]
          /\ grid' = IF tier_from_csv(grid, CsvTierName, f).exc = ""
                      THEN tier_from_csv(grid, CsvTierName, f).obj[1]
                      ELSE grid
    /\ UNCHANGED <<pc, data, lineno, parser, grid_xmin, grid_xmax, tier, name, x0, x1,
                    tlen, mode, outcome, examined>>
    /\ UNCHANGED <<source, saved, written, twin, made, subject>>

\* repr(grid) of the grid that tier_from_csv has filled
ReprImported ==
    /\ call.op = "tier_from_csv"
    /\ call.result.exc = ""
    /\ written = Raised("")
    /\ saved = <<>>
    /\ written' = Repr(grid)
    /\ saved' = <<grid>>
    /\ UNCHANGED parseVars
    /\ UNCHANGED <<source, twin, made, subject, call>>

CsvNext == TierFromCsv \/ ReprImported

CsvSpec == Init /\ [][CsvNext]_vars

(***************************************************************************)
(* Claims.                                                                 *)
(***************************************************************************)
\* a call Interval(text, xmin, xmax) has been made
Called == made.args # <<>>

\* C1: constructing an Interval with xmin > xmax always fails: whatever the
\* text, a call Interval(text, xmin, xmax) with xmin > xmax raises an error
\* and yields no Interval object.
C1_IntervalBoundsChecked ==
    (Called /\ ValGT(made.args[2], made.args[3]))
        => (made.result.exc # "" /\ made.result.obj = <<>>)

\* a call with xmin > xmax has been made and has raised
C1_Witness ==
    /\ Called
    /\ ValGT(made.args[2], made.args[3])
    /\ made.result.exc = "TypeError"

\* the grid that holds exactly what content c declares
GridOf(c) ==
    [i \in 1..Len(c.tiers) |->
        [name |-> c.tiers[i].name,
         tier |-> [st |-> "Tier", point |-> c.tiers[i].point, elems |-> c.tiers[i].elems]]]

\* a call of parse on the lines of such an input has ended
DoneWith(fmt, damage) == pc = "done" /\ source.fmt = fmt /\ source.damage = damage

HasIntervalAndPointTier(g) ==
    /\ \E i \in 1..Len(g) : ~g[i].tier.point
    /\ \E i \in 1..Len(g) : g[i].tier.point

\* C2: long-text round trip: a grid with at least one interval tier and one
\* point tier is serialized by __repr__ without an error, and parsing the
\* text gives a grid equal to it (names, order, variants, elements).
C2_LongRoundTrip ==
    (saved # <<>> /\ HasIntervalAndPointTier(saved[1]))
        => /\ written.exc = ""
           /\ pc = "done" => (outcome.kind = "ok" /\ grid = saved[1])

\* C3: cross-format equivalence: for the same content, the parse of its long
\* text and the parse of its short text both complete and give grids with
\* the same tier names, element counts and element fields.
C3_LongShortEquivalent ==
    (pc = "done" /\ saved = <<>> /\ twin # <<>>)
        => /\ twin[1].outcome.kind = "ok"
           /\ outcome.kind = "ok"
           /\ grid = twin[1].grid

\* C4: parsing a well-formed long-text file completes with, for every tier
\* the file declares and in file order, a Tier under the declared name, of
\* the declared class, holding exactly the declared elements.
C4_LongParseYieldsDeclared ==
    DoneWith("long", "none") => (outcome.kind = "ok" /\ grid = GridOf(source.content))

\* C5: parsing a well-formed short-text file completes with, for every
\* declared tier of any length, a Tier under the declared name holding
\* exactly the declared elements in order.
C5_ShortParseYieldsDeclared ==
    DoneWith("short", "none") => (outcome.kind = "ok" /\ grid = GridOf(source.content))

\* the number of the first line of the first tier in a short text
FirstTierLine == 8

\* C6: a short text that lacks one positional line of a tier or element
\* fails with ParseError: the call neither completes nor fails otherwise.
C6_MissingLineIsParseError ==
    (DoneWith("short", "dropped") /\ source.at >= FirstTierLine)
        => outcome.kind = "ParseError"

\* C7: whatever the input, parse completes or raises ParseError; no other
\* kind of failure reaches the caller.
C7_OnlyParseError ==
    pc = "done" => outcome.kind \in {"ok", "ParseError"}

\* C8: after a valid header the input is parsed as short text if and only
\* if its first content line begins with a digit or a minus sign, and as
\* long text otherwise.
C8_ShortIffBeginsLikeNumber ==
    parser # "none" => (parser = "short" <=> BeginsLikeNumber(data[4]))

\* one of the first three lines is there and is not the header's line
HeaderDiffers(d) == \E i \in 1..3 : i <= Len(d) /\ d[i] # Head3[i]

\* C9: when one of the first three lines differs from the fixed header,
\* parse fails with ParseError and the grid has no tier.
C9_BadHeaderIsParseError ==
    (pc # "idle" /\ HeaderDiffers(data))
        => (pc = "done" /\ outcome.kind = "ParseError" /\ grid = <<>>)

\* the call has read the existence flag (line 6), and the flag is false
FlagFalse ==
    /\ parser \in {"long", "short"}
    /\ Len(data) >= 6
    /\ grid_xmin # Unbound
    /\ grid_xmax # Unbound
    /\ IF parser = "long" THEN ~Contains(data[6], ExistsMark) ELSE data[6] # ExistsMark

\* C10: when the existence flag is false the call stops right after reading
\* it: it completes, xmin and xmax are those of lines 4 and 5, the grid has
\* no tier and no line after the flag is examined, in either parser.
C10_FalseFlagStops ==
    FlagFalse
        => /\ pc \in {"done", "written"}
           /\ outcome.kind = "ok"
           /\ grid = <<>>
           /\ examined = 6
           /\ grid_xmin = FloatVal(ParseFloat(LastToken(data[4])).val)
           /\ grid_xmax = FloatVal(ParseFloat(LastToken(data[5])).val)

\* a long text with a false flag and tiers after it has been parsed
C10_Witness ==
    /\ FlagFalse
    /\ parser = "long"
    /\ pc = "done"
    /\ \E k \in 9..Len(data) : new_tier(data[k])
    /\ grid = <<>>
    /\ examined = 6

\* the grid that a binary file of shape s declares
BinaryGridOf(s) ==
    IF s.tiers = 0 THEN <<>>
    ELSE <<[name |-> StrVal(<<"t","o","n","e","s">>),
            tier |-> [st |-> "Tier", point |-> Len(s.tag) # 12,
                      elems |-> [j \in 1..s.n |->
                          IF Len(s.tag) # 12
                          THEN Point(StrVal(<<"H">>), FloatVal(Normalize(s.at, -1)))
                          ELSE IntervalOf(StrVal(<<"H">>), FloatVal(Zero),
                                          FloatVal(Normalize(s.at, -1)))]]]>>

\* C11: reading a file that begins with the binary signature parses it as
\* binary: the call completes and the grid holds what the file declares (for
\* the tag PointTier, name "tones" and one element "H" at 0.3: one point tier
\* of length 1 whose element has the text "H").
C11_BinaryIsParsed ==
    (pc = "done" /\ source.fmt = "binary")
        => (outcome.kind = "ok" /\ grid = BinaryGridOf(source.content))

\* the class of elem is not the one that tier tr is declared for
Mismatch(tr, elem) == ClassOf(elem) # (IF tr.point THEN "Point" ELSE "Interval")

Homogeneous(tr) == \A i \in 1..Len(tr.elems) : ~Mismatch(tr, tr.elems[i])

\* C12: a tier is never mixed: appending an element (append, or tier + elem)
\* whose class does not match the tier's is_point_tier raises TypeError and
\* leaves the tier as it was, so every element of a tier matches its flag.
C12_TierNeverMixed ==
    /\ (/\ call.op \in {"append", "__add__"}
        /\ ClassOf(call.args[1]) # "Tier"
        /\ Mismatch(call.self, call.args[1]))
          => (call.result.exc = "TypeError" /\ subject = call.self)
    /\ Homogeneous(subject)

\* concat(first, last) is called on an interval tier of intervals with a
\* range first..last that is not empty: 0 <= first <= last < len(tier)
ConcatOnRange ==
    /\ call.op = "concat"
    /\ ~call.self.point
    /\ Homogeneous(call.self)
    /\ 0 <= call.args[1]
    /\ call.args[1] <= call.args[2]
    /\ call.args[2] < Len(call.self.elems)

\* tier tr with the intervals first..last (0-based, inclusive) made one
Merged(tr, first, last) ==
    [tr EXCEPT !.elems =
        SubSeq(tr.elems, 1, first)
        \o <<IntervalOf(StrVal(JoinTexts(SubSeq(tr.elems, first + 1, last + 1))),
                        tr.elems[first + 1].xmin, tr.elems[last + 1].xmax)>>
        \o SubSeq(tr.elems, last + 2, Len(tr.elems))]

\* C13: concat(first, last) on a range of an interval tier that is not empty
\* completes and leaves the tier with the intervals first through last
\* replaced by one interval: their texts joined in order, the xmin of the
\* first and the xmax of the last; the other intervals are as they were.
C13_ConcatMerges ==
    ConcatOnRange
        => /\ call.result.exc = ""
           /\ subject = Merged(call.self, call.args[1], call.args[2])

\* C14: concat on a point tier raises TypeError, concat on an empty range
\* (first > last, or a tier without elements) fails, and in both cases the
\* tier is left as it was.
C14_ConcatFails ==
    /\ (call.op = "concat" /\ call.self.point)
          => (call.result.exc = "TypeError" /\ subject = call.self)
    /\ (/\ call.op = "concat"
        /\ 0 <= call.args[2]
        /\ (call.args[1] > call.args[2] \/ call.self.elems = <<>>))
          => (call.result.exc # "" /\ subject = call.self)

\* where an element begins and ends on the time axis
ElemStart(e) == IF ClassOf(e) = "Point" THEN e.xpos ELSE e.xmin

ElemEnd(e) == IF ClassOf(e) = "Point" THEN e.xpos ELSE e.xmax

\* tier t1 ends after tier t2 begins
EndsAfter(t1, t2) ==
    /\ t1.elems # <<>>
    /\ t2.elems # <<>>
    /\ ValGT(ElemEnd(t1.elems[Len(t1.elems)]), ElemStart(t2.elems[1]))

\* C15: tier1 + tier2 gives a Tier of the elements of tier1 followed by those
\* of tier2 when the two are of the same variant and tier1 does not end
\* after tier2 begins, and fails otherwise.
C15_TierPlusTier ==
    (call.op = "__add__" /\ ClassOf(call.args[1]) = "Tier")
        => IF call.self.point = call.args[1].point /\ ~EndsAfter(call.self, call.args[1])
           THEN call.result = Returned([call.self EXCEPT !.elems = @ \o call.args[1].elems])
           ELSE call.result.exc # ""

\* the text holds an index-diacritic escape sequence / combining mark
HasIndexEscape(t) == \E k \in 1..Len(index_diacritics) : Find(t, index_diacritics[k].praat, 0) >= 0

HasIndexMark(t) == \E k \in 1..Len(index_diacritics) : Find(t, index_diacritics[k].uni, 0) >= 0

\* a text has been transcoded to Unicode and the result back
WentBack == call.op = "back"

\* C16: transcoding is an involution on inline symbols: a text made of
\* inline-symbol escape sequences and plain letters, without index
\* diacritics, transcoded to Unicode and back to escape notation, is the
\* text again (by either transcoder, whatever retain_diacritics).
C16_InlineInvolution ==
    (WentBack /\ ~HasIndexEscape(call.self)) => call.result = Returned(call.self)

\* the hosts: a plain letter and the inline symbols of the tables, each with
\* its Unicode character
Hosts == {[praat |-> <<"a">>, uni |-> <<"a">>]} \cup {inline_symbols[k] : k \in 1..Len(inline_symbols)}

\* transcript.py's transcode was called to Unicode, retaining diacritics, on
\* a text in which a host is followed by an index-diacritic escape sequence
RetainedToUnicode ==
    /\ call.op = "transcode"
    /\ call.args = <<"transcript", TRUE, TRUE>>
    /\ \E h \in Hosts, k \in 1..Len(index_diacritics) :
            Find(call.self, h.praat \o index_diacritics[k].praat, 0) >= 0

\* C17: transcoding escape notation to Unicode with retain_diacritics true
\* gives host-then-diacritic: for every host followed by an index-diacritic
\* escape sequence in the input, the output holds the host's Unicode
\* character immediately followed by the combining mark, and no
\* index-diacritic escape sequence remains.
C17_HostThenDiacritic ==
    RetainedToUnicode
        => /\ call.result.exc = ""
           /\ ~HasIndexEscape(call.result.obj[1])
           /\ \A h \in Hosts, k \in 1..Len(index_diacritics) :
                  Find(call.self, h.praat \o index_diacritics[k].praat, 0) >= 0
                      => Find(call.result.obj[1], h.uni \o index_diacritics[k].uni, 0) >= 0

\* every index-diacritic escape sequence of the text follows a host, alone
\* or stacked: there is one, and the text does not begin with one
Attached(t) ==
    /\ HasIndexEscape(t)
    /\ \A k \in 1..Len(index_diacritics) : ~StartsWith(t, index_diacritics[k].praat)

\* C18: index-diacritic round trip: a text in escape notation in which each
\* index diacritic (one or several stacked) follows a host, transcoded to
\* Unicode and back to escape notation by transcript.py's transcode, both
\* with retain_diacritics true, is the original text: both calls return, and
\* the second gives the text the first was given.
C18_DiacriticRoundTrip ==
    /\ (call.op = "transcode" /\ call.args = <<"transcript", TRUE, TRUE>> /\ Attached(call.self))
            => call.result.exc = ""
    /\ (WentBack /\ call.args = <<"transcript", FALSE, TRUE>> /\ Attached(call.self))
            => call.result = Returned(call.self)

\* t without its index-diacritic escape sequences (praat TRUE) or without
\* its index-diacritic combining marks (praat FALSE)
RECURSIVE Without(_, _)
Without(t, praat) ==
    IF t = <<>> THEN t
    ELSE IF praat /\ Len(t) >= 3 /\ HasIndexEscape(SubSeq(t, 1, 3)) THEN Without(Drop(t, 3), praat)
    ELSE IF ~praat /\ HasIndexMark(<<Head(t)>>) THEN Without(Tail(t), praat)
    ELSE <<Head(t)>> \o Without(Tail(t), praat)

\* transcode was called with retain_diacritics false
NotRetained == call.op = "transcode" /\ ~call.args[3]

\* C19: with retain_diacritics false, transcode drops the index diacritics
\* in either direction: to Unicode every index-diacritic escape sequence of
\* the input is deleted, to escape notation every index-diacritic combining
\* mark; the other characters are transcoded as they are without the
\* diacritics, in the same order (by either transcoder).
C19_DiacriticsDropped ==
    NotRetained
        => /\ call.result.exc = ""
           /\ ~HasIndexEscape(call.result.obj[1])
           /\ ~HasIndexMark(call.result.obj[1])
           /\ call.result = TranscodeBy(call.args[1], Without(call.self, call.args[2]),
                                        call.args[2], FALSE)

\* C20: the vowel predicates give the same answer in both notations:
\* containsvowel and startswithvowel on an Interval labelled t, in escape
\* notation, return what they return on an Interval labelled with t
\* transcoded to Unicode.
C20_VowelsInBothNotations ==
    call.op = "vowels"
        => /\ call.result[1] = call.result[3]
           /\ call.result[2] = call.result[4]

\* tier_from_csv has been called on a file
Imported == call.op = "tier_from_csv"

\* the number of fields of a row
Arity(line) == Len(CsvFields(line))

\* a row as the import expects it: a label and one time, or a label and two
\* times of which the first is not after the second, the times being numbers
ProperRow(line) ==
    \/ /\ Arity(line) = 2
       /\ ParseFloat(CsvFields(line)[2]).ok
    \/ /\ Arity(line) = 3
       /\ ParseFloat(CsvFields(line)[2]).ok
       /\ ParseFloat(CsvFields(line)[3]).ok
       /\ ~FloatGT(ParseFloat(CsvFields(line)[2]).val, ParseFloat(CsvFields(line)[3]).val)

\* the file holds a row of the wrong number of fields, after proper rows only
HasWrongArity(f) ==
    \E i \in 1..Len(f) :
        /\ Arity(f[i]) \notin {2, 3}
        /\ \A j \in 1..(i - 1) : ProperRow(f[j])

\* the grid holds a tier (or anything) under the name
Holds(g, nm) == \E i \in 1..Len(g) : g[i].name = nm

\* self[nm] of a grid that holds the name
TierOf(g, nm) == g[CHOOSE i \in 1..Len(g) : g[i].name = nm].tier

\* C21: importing delimited rows: a row whose number of fields is neither 2
\* nor 3 fails with a ValueError, and no tier is stored in the grid under
\* the given tier name (the rows before it being proper rows).
C21_WrongArityIsValueError ==
    (Imported /\ HasWrongArity(call.args[2]))
        => /\ call.result.exc = "ValueError"
           /\ ~Holds(grid, call.args[1])

\* the file has rows of two fields and rows of three fields, and no other
Mixes(f) ==
    /\ \E i \in 1..Len(f) : Arity(f[i]) = 2
    /\ \E i \in 1..Len(f) : Arity(f[i]) = 3
    /\ \A i \in 1..Len(f) : Arity(f[i]) \in {2, 3}

\* the tier holds a Point and an Interval
MixedTier(t) ==
    /\ t.st # "None"
    /\ \E i, j \in 1..Len(t.elems) :
          t.elems[i].kind = "Point" /\ t.elems[j].kind = "Interval"

\* C22: importing delimited rows that mix 2-field (point) rows and 3-field
\* (interval) rows in one import fails with a TypeError, and the grid never
\* holds an imported tier with both Points and Intervals.
C22_MixedRowsAreTypeError ==
    Imported
        => /\ Mixes(call.args[2]) => call.result.exc = "TypeError"
           /\ \A i \in 1..Len(grid) : ~MixedTier(grid[i].tier)

\* the times of an element: xpos of a Point, xmin and xmax of an Interval
Times(elem) == IF elem.kind = "Point" THEN <<elem.xpos>> ELSE <<elem.xmin, elem.xmax>>

\* the times of the element are the floats that the fields of the row read as
StoredAsFloat(elem, fields) ==
    /\ Len(Times(elem)) = Len(fields) - 1
    /\ \A k \in 1..Len(Times(elem)) :
          /\ Times(elem)[k].t = "float"
          /\ ParseFloat(fields[k + 1]).ok
          /\ Times(elem)[k].f = ParseFloat(fields[k + 1]).val

\* the tier that the import stored, element by element from the rows
StoredFrom(t, f) ==
    /\ t.st = "Tier"
    /\ Len(t.elems) = Len(f)
    /\ \A i \in 1..Len(f) : StoredAsFloat(t.elems[i], CsvFields(f[i]))

\* every row is a proper row, all of them of the same number of fields
ProperFile(f) ==
    /\ f # <<>>
    /\ \A i \in 1..Len(f) : ProperRow(f[i]) /\ Arity(f[i]) = Arity(f[1])

\* C23: importing delimited rows stores times as numbers: the xmin and xmax
\* of every imported Interval (the xpos of every Point) are the floats parsed
\* from the fields of its row, and the check xmin <= xmax at construction
\* compares numbers, so that a file of proper rows is imported.
C23_TimesAreFloats ==
    Imported
        => /\ ProperFile(call.args[2]) => call.result.exc = ""
           /\ (call.result.exc = "" /\ call.args[2] # <<>>)
                 => StoredFrom(TierOf(grid, call.args[1]), call.args[2])

\* the time point is the float
PointIs(p, f) == p.f = FloatMul(f, p.over)

\* the list is a time grid of the interval with n steps
IsTimegrid(ps, iv, n) ==
    /\ Len(ps) = n + 1
    /\ PointIs(ps[1], iv.xmin.f)
    /\ PointIs(ps[Len(ps)], iv.xmax.f)
    /\ \A k \in 1..(Len(ps) - 1) :
          /\ ps[k].over = ps[k + 1].over
          /\ FloatSub(ps[k + 1].f, ps[k].f) = FloatSub(ps[2].f, ps[1].f)

\* C24: for every interval and every integer N >= 1, timegrid(N) returns a
\* list of exactly N + 1 evenly spaced time points, the first the xmin of
\* the interval and the last its xmax; for any other N it raises ValueError.
C24_TimegridOfNSteps ==
    call.op = "timegrid"
        => IF call.args[1].int /\ call.args[1].h >= 2
           THEN /\ call.result.exc = ""
                /\ IsTimegrid(call.result.obj[1], call.self, call.args[1].h \div 2)
           ELSE call.result.exc = "ValueError"

\* a transcoder was called, on a text or on the result of a call before
Transcoded == call.op \in {"transcode", "back"}

\* C25: Transcript.transcode is total: for every text, in both directions and
\* with retain_diacritics true or false, the call ends and returns a str; the
\* loops that relocate the index diacritics go on at every turn (no text
\* that grows without end) and never index outside the text.
C25_TranscodeIsTotal ==
    Transcoded
        => /\ call.result.exc = ""
           /\ call.result.obj # <<>>

\* parse has raised ParseError
ParseErrorRaised == pc = "done" /\ outcome.kind = "ParseError"

\* C26: every ParseError raised by TextGrid.parse carries as its first
\* argument the 1-based number, in the input file, of the line that caused
\* it (so that str() of the error can be made), for a header mismatch as for
\* a bad value line of the long or of the short parser.
C26_ParseErrorHasLine ==
    ParseErrorRaised
        => /\ outcome.args # <<>>
           /\ outcome.args[1] = examined
           /\ outcome.args[1] \in 1..Len(data)

\* the names of the tiers of a grid, and of a content, in their order
Names(g) == [i \in 1..Len(g) |-> g[i].name]

\* a second read on the same TextGrid has completed
Reread == call.op = "read" /\ pc = "done" /\ outcome.kind = "ok"

\* every tier that the content declares has elements
AllTiersFilled(c) == \A i \in 1..Len(c.tiers) : c.tiers[i].elems # <<>>

\* C27: parsing replaces the content of the grid: after a second read on the
\* same TextGrid has completed, the names of its tiers are exactly those
\* declared in the new input, in its order; no tier from before remains.
C27_RereadReplacesTiers ==
    (Reread /\ AllTiersFilled(source.content))
        => Names(grid) = Names(source.content.tiers)

\* the file that write() made has been read back by a new TextGrid
ReadBackDone == pc = "done" /\ source.damage = "written"

\* C28: serialization is defined for every grid and gives a parsable file:
\* for every grid that parsing gave (the grid without tiers included),
\* __repr__/write gives text without failing, and parse takes that text and
\* gives a grid with the same number of tiers.
C28_WrittenFileIsParsable ==
    /\ pc = "written" => written.exc = ""
    /\ ReadBackDone
          => /\ outcome.kind = "ok"
             /\ Len(grid) = Len(saved[1])

====
